---- MODULE Spec2Model ----
(***************************************************************************)
(* Speech-to-avatar synchronisation of copilot_react.                      *)
(*                                                                         *)
(*   - useSpeechAvatar (src/src/hooks/useSpeechAvatar.ts): the synthesis   *)
(*     orchestrator hook, specification SpecHook.                          *)
(*   - Avatar (src/unnamed/part_014, and the forwardRef copy kept in       *)
(*     src/src/components/EndChatModal.tsx): the viseme playback engine,   *)
(*     specification SpecAvatar.                                           *)
(*   - AzureSpeechService / ElevenLabsTTSService: the two TTS adapters,    *)
(*     specification SpecAdapters.                                         *)
(*                                                                         *)
(* JavaScript is single threaded: every action below is one run of a       *)
(* handler from the point it is entered to its next await (or its return). *)
(***************************************************************************)
EXTENDS Integers, Sequences, FiniteSets, TLC

(***************************************************************************)
(* Bounds of the model.                                                    *)
(***************************************************************************)
\* speakWithLipSync calls made on one hook instance
MaxCalls == 3
\* audio buffers handed to one Avatar instance (playAudioWithVisemes runs)
MaxPlays == 2
\* element.play() attempts of one playAudioWithVisemes run (the first and its resumes)
MaxAttempts == 3

\* synthesis calls made on the Azure adapter
MaxAzCalls == 2
\* synthesis calls made on the ElevenLabs adapter
MaxElCalls == 2
\* initialize() calls made on each adapter
MaxInits == 1

\* viseme callbacks of one Azure synthesis
MaxVisemes == 3
\* largest audioOffset an Azure viseme event carries (in SDK ticks)
MaxTick == 2
\* chunks of one chunked ElevenLabs synthesis
MaxChunks == 2

\* characters of a text handed to chunkText
MaxTextLen == 8

Calls == 1..MaxCalls
Plays == 1..MaxPlays
AzCalls == 1..MaxAzCalls
ElCalls == 1..MaxElCalls

VARIABLES
  \* ---- useSpeechAvatar: SpeechAvatarState and the hook's refs
  isInitialized,   \* state.isInitialized (ttsService is set in the same pass)
  isSpeaking,      \* state.isSpeaking
  isLoading,       \* state.isLoading
  error,           \* state.error: "none", "config", "synthesis"
  visemeData,      \* state.visemeData: 0 is [], k is the timeline of call k's result
  audioBuffer,     \* state.audioBuffer: 0 is null, k is the buffer of call k's result
  isCancelled,     \* isCancelled.current
  callPc,          \* per speak call: "idle", "awaiting" ("awaitingOnly" without lip-sync), "done"
  callRet,         \* what the call returned: "none", "zero", "duration", "threw"
  overlapped,      \* history: calls that were still awaiting when a later call began
  cancelledCalls,  \* history: calls that were awaiting when cancelSpeech() ran
  hookOp           \* history: the hook function that ran last

hookVars == <<isInitialized, isSpeaking, isLoading, error, visemeData,
              audioBuffer, isCancelled, callPc, callRet, overlapped, cancelledCalls,
              hookOp>>

VARIABLES
  \* ---- Avatar: refs, state and the <audio> element it owns
  avatarSrc,               \* which copy of the component: "part_014" or "EndChatModal"
  currentMouthShape,       \* "neutral", "aa" or "viseme" (a shape taken from the timeline)
  objectUrlRef,            \* objectUrlRef.current: 0 is null, k the URL made for buffer k
  liveUrls,                \* object URLs created and not yet revoked
  animationRef,            \* animationRef.current: 0 is null, k a request of run k's loop
  rafPending,              \* per run: animation-frame requests scheduled and not yet run
  pendingResumeHandlerRef, \* pendingResumeHandlerRef.current: 0 is null, k is run k's resume
  listeners,               \* resume closures registered on document (pointerdown + keydown)
  elState,                 \* the <audio> element: "paused", "pending", "playing", "ended"
  elSrc,                   \* the buffer whose URL is the element's src (0: none)
  playPromise,             \* per run, its awaited element.play(): "none", "pending",
                           \* "aborted" (rejected by pause(), handler not yet run), "settled"
  awaitedBy,               \* per run, who awaits startPlayback: "main" or "resume"
  hasVisemes,              \* per run, visemeData.length > 0 in the run's closure
  attempts,                \* history: element.play() calls made by each run
  startCount,              \* history: onSpeechStart calls made by each run
  interrupted,             \* history: runs that stopSpeech() interrupted
  endedSince,              \* history: 'ended' fired and no playback was started since
  propIsSpeaking,          \* the isSpeaking prop (the parent's state.isSpeaking)
  effectDue,               \* the isSpeaking prop changed and its effect has not run yet
  ev                       \* what the last handler did: its name, its run, the callbacks it fired

avatarVars == <<avatarSrc, currentMouthShape, objectUrlRef, liveUrls, animationRef,
                rafPending, pendingResumeHandlerRef, listeners, elState, elSrc,
                playPromise, awaitedBy, hasVisemes, attempts, startCount, interrupted,
                endedSince, propIsSpeaking, effectDue, ev>>

VARIABLES
  \* ---- AzureSpeechService: the fields of the singleton
  region,                  \* this.region is set
  subscriptionKey,         \* this.subscriptionKey is set
  authorizationToken,      \* "null", "static" (from the config) or "fresh" (from the provider)
  getAuthorizationToken,   \* this.getAuthorizationToken is set
  tokenExpiresAt,          \* "null", "later" or "soon" (within the refresh window)
  speechConfig,            \* this.speechConfig is set
  synthesizer,             \* 0 is null, g the g-th SpeechSynthesizer created
  silentAudioStream,       \* 0 is null, g the g-th PushAudioOutputStream created
  silentAudioCallback,     \* this.silentAudioCallback is set
  activeSynthesisPromises, \* the calls whose promiseState object is in the set
  created,                 \* synthesizer / stream pairs created so far
  closedSynths,            \* synthesizers on which close() was called
  closedStreams,           \* output streams on which close() was called
  azInits,                 \* initialize() calls so far
  azInitPc,                \* initialize(): "idle", or "awaitToken" inside resolveAuthorizationToken
  azPc,                    \* per synthesis call: "idle", "ensuring", "inflight", "done"
  settled,                 \* per call: promiseState.settled
  timer,                   \* per call, its timeoutHandle: "none", "armed", "cleared", "fired"
  sdk,                     \* per call, the SDK request: "none", "outstanding", "done"
  azPromise,               \* per call, the caller's promise: "pending", "resolved", "rejected"
  usedSynth,               \* per call, the synthesizer its request was issued on
  settleCalls,             \* history: resolve() / reject() invocations per call
  settleWrites,            \* history: assignments promiseState.settled = true per call
  \* ---- ElevenLabsTTSService: the fields of the singleton
  elClient,                \* this.client is set
  elApiKey,                \* "null", "placeholder" or "key"
  elVoiceId,               \* this.voiceId is set
  elInits,                 \* initialize() calls so far
  elPc,                    \* per call: "idle", "converting", "decoding", "done"
  elPromise,               \* per call, the caller's promise: "pending", "resolved", "rejected"
  \* ---- both adapters
  provider,                \* config.ttsProvider || 'azure': the service the hook drives
  disposed,                \* history: "yes" since a dispose(), "used" once a synthesis call
                           \* was made after it, "no" again from the next initialize()
  adEv                     \* history: the adapter method that ran last: a dispose()
                           \* ("azDispose", "elDispose"), an initialize() that returned
                           \* ("azInitialized", "elInitialized") or threw ("azInitFailed",
                           \* "elInitFailed"), or another one ("other")

azVars == <<region, subscriptionKey, authorizationToken, getAuthorizationToken,
            tokenExpiresAt, speechConfig, synthesizer, silentAudioStream,
            silentAudioCallback, activeSynthesisPromises, created, closedSynths,
            closedStreams, azInits, azInitPc, azPc, settled, timer, sdk, azPromise,
            usedSynth, settleCalls, settleWrites>>

elVars == <<elClient, elApiKey, elVoiceId, elInits, elPc, elPromise>>

adapterVars == <<azVars, elVars, provider, adEv, disposed>>

VARIABLES
  \* ---- the viseme timeline of one synthesis
  collected,               \* Azure: the local visemeData array, in arrival order
  timeline,                \* Azure: <<v>> once the call resolved with visemeData v, else <<>>
  results,                 \* ElevenLabs: the TTSResult of each chunk synthesized so far
  ttsResult                \* ElevenLabs: <<r>> once the call returned TTSResult r, else <<>>

visemeVars == <<collected, timeline, results, ttsResult>>

VARIABLES
  \* ---- one call of chunkText
  text,                    \* the text, a sequence of characters
  maxLength,               \* the maxLength argument (0 before the call)
  chunks,                  \* the array returned
  chunker                  \* "none" before the call, then the file whose chunkText ran

chunkVars == <<text, maxLength, chunks, chunker>>

VARIABLES
  \* ---- the text an adapter hands to its provider
  rawText,                 \* the text given to the synthesis operation
  spoken,                  \* <<>>, or <<the text sent to the provider>>
  spokenBy                 \* "none", or the operation that sent it

prepareVars == <<rawText, spoken, spokenBy>>

VARIABLES
  \* ---- AzureSpeechService.createSpeechRecognizer
  recPc                    \* per call: "idle", "ensuring", "created" or "failed"

recognizerVars == <<recPc>>

VARIABLES
  \* ---- useSpeechRecognition: refs and state of one capture hook
  recognizerRef,           \* recognizerRef.current: 0 is null, n the n-th recognizer created
  recCount,                \* recognizers created so far
  active,                  \* activeSessionRef.current.active
  startInProgress,         \* startInProgressRef.current
  pendingStop,             \* pendingStopRef.current
  isRecording,             \* state.isRecording
  interimResult,           \* state.interimResult is not ''
  finalResult,             \* state.finalResult is not ''
  captureError,            \* state.error: "none" or the kind of message
  \* ---- the SDK side of each recognizer
  sdkStart,                \* startContinuousRecognitionAsync: "none", "pending", "started", "failed"
  stopsPending,            \* stopContinuousRecognitionAsync calls not answered yet
  closes,                  \* close() calls made (2: two or more)
  \* ---- history
  stopRequested,           \* per recognizer: stopRecording() was called on it
  terminations,            \* per recognizer: canceled / sessionStopped handlers that ran
                           \* past their guard (2: two or more)
  capOp,                   \* "startIgnored" after a startRecording() that returned at
                           \* once, else "other"
  lateWrite                \* a recognizing / recognized event changed the results of a
                           \* recognizer on which stopRecording() had been called

hookState == <<recognizerRef, recCount, active, startInProgress, pendingStop,
               isRecording, interimResult, finalResult, captureError>>

sdkState == <<sdkStart, stopsPending, closes>>

captureVars == <<hookState, sdkState, stopRequested, terminations, capOp, lateWrite>>

VARIABLES
  \* ---- ChatInterface: its state and refs, and what it reads from its two hooks
  messages,             \* the messages shown, in order: [kind, of]
  isTyping,             \* useState isTyping
  isListening,          \* useState isListening (the avatar's listening pose)
  hasSpokenWelcomeRef,  \* hasSpokenWelcomeRef.current
  welcomeTimer,         \* the setTimeout of the welcome effect is pending
  sendPc,               \* per handleSendMessage call: "idle", "awaitSend", "awaitSpeech", "done"
  sendClosure,          \* per call: isSpeechInitialized as the call's closure captured it
  speechOutcome,        \* per call: how its speech ended: "none", "skipped", "played", "silent"
  welcomePc,            \* the welcome's speakWithLipSync call: "idle", "awaiting", "done"
  isSpeechInitialized,  \* useSpeechAvatar().isInitialized
  isSpeechLoading,      \* useSpeechAvatar().isLoading
  isAvatarSpeaking,     \* useSpeechAvatar().isSpeaking
  avatarAudioBuffer,    \* useSpeechAvatar().audioBuffer is set (0: null, else the speaker)
  lastProcessedBuffer,  \* Avatar: lastProcessedBufferRef.current (0: none)
  audioPlaying,         \* Avatar: the <audio> element is playing
  isVoiceRecording,     \* useSpeechRecognition().isRecording
  voiceFinalResult,     \* useSpeechRecognition().finalResult is not blank
  voiceSession,         \* the recognition session still delivers events
  chatOp                \* history: <<"speechReturned", s>> right after that step, else <<"other", 0>>

chatVars == <<messages, isTyping, isListening, hasSpokenWelcomeRef, welcomeTimer,
              sendPc, sendClosure, speechOutcome, welcomePc, isSpeechInitialized,
              isSpeechLoading, isAvatarSpeaking, avatarAudioBuffer,
              lastProcessedBuffer, audioPlaying, isVoiceRecording, voiceFinalResult,
              voiceSession, chatOp>>

VARIABLES
  \* ---- Avatar.animateVisemes: one playback, frame by frame
  frameVisemes,   \* the visemeData prop of the playback (sorted by audioOffset)
  framePlaying,   \* the element is playing and the animation loop is scheduled
  audioTime,      \* audioElement.currentTime, in units of TickMs
  wallClock,      \* time since the playback began, in units of TickMs
  activeSince,    \* history: wallClock when the audio position entered the current event
  frameActive,    \* history: index the last frame selected as activeViseme (0: no frame yet)
  frameShape,     \* the shape the last frame passed to setCurrentMouthShape ("none" before)
  frameOp         \* history: "frame" right after an animation frame, else "other"

frameVars == <<frameVisemes, framePlaying, audioTime, wallClock, activeSince,
               frameActive, frameShape, frameOp>>

VARIABLES
  \* ---- ElevenLabsTTSService: the duration of one synthesis
  durPc,          \* the call: "idle", "converting", "decoding", "resolved", "rejected"
  durOperation,   \* "withVisemes" (synthesizeSingleChunk) or "only" (synthesizeSpeechOnly)
  durTextLength,  \* the length of the text sent to the provider
  durDecode,      \* what decodeAudioData did: "none", "decoded", "throws", "noContext"
  durDecodedMs,   \* decodedBuffer.duration * 1000 when it decoded, else 0
  durResult       \* the duration of the TTSResult (0 before)

durationVars == <<durPc, durOperation, durTextLength, durDecode, durDecodedMs, durResult>>

VARIABLES
  \* ---- AzureSpeechService: viseme events of calls that share one synthesizer
  visemeHandler,     \* synthesizer.visemeReceived: the call whose closure is installed (0: none)
  utteranceVisemes,  \* per call: viseme events the SDK emitted for its utterance
  callVisemeData,    \* per call: its visemeData array, as the utterances the events belong to
  sharedPc           \* per call: "idle", "inflight", "resolved"

sharedVars == <<visemeHandler, utteranceVisemes, callVisemeData, sharedPc>>

VARIABLES
  \* ---- ElevenLabsTTSService.synthesizeSpeechWithVisemes, chunked mode
  loopPc,        \* "idle", "converting", "streaming", "decoding", "resolved", "rejected"
  loopChunks,    \* chunks.length of the call
  loopIndex,     \* i + 1: the chunk the for loop is at
  loopRequests,  \* the chunks textToSpeech.convert was called for, in call order
  loopReceived,  \* the chunks whose audio stream was read to its end
  loopPieces,    \* pieces of the current chunk's audio stream read so far
  loopResults,   \* results: the chunks pushed so far
  loopError,     \* "none", "notInitialized", "wrapped" (Failed to synthesize speech ...)
  loopReturn,    \* the chunks of the TTSResult the call resolved with
  loopFailedAt   \* the chunk whose synthesizeSingleChunk threw (0: none)

loopVars == <<loopPc, loopChunks, loopIndex, loopRequests, loopReceived, loopPieces, loopResults, loopError, loopReturn, loopFailedAt>>

vars == <<hookVars, avatarVars, adapterVars, visemeVars, chunkVars, prepareVars, recognizerVars, captureVars, chatVars, frameVars, durationVars, sharedVars, loopVars>>

\* What a handler of one component leaves alone: the other components.
notHook == <<avatarVars, adapterVars, visemeVars, chunkVars, prepareVars, recognizerVars, captureVars, chatVars, frameVars, durationVars, sharedVars, loopVars>>
notAvatar == <<hookVars, adapterVars, visemeVars, chunkVars, prepareVars, recognizerVars, captureVars, chatVars, frameVars, durationVars, sharedVars, loopVars>>
notAzure == <<hookVars, avatarVars, elVars, provider, visemeVars, chunkVars, prepareVars, recognizerVars, captureVars, chatVars, frameVars, durationVars, sharedVars, loopVars>>
notEleven == <<hookVars, avatarVars, azVars, provider, visemeVars, chunkVars, prepareVars, recognizerVars, captureVars, chatVars, frameVars, durationVars, sharedVars, loopVars>>
notVisemes == <<hookVars, avatarVars, adapterVars, chunkVars, prepareVars, recognizerVars, captureVars, chatVars, frameVars, durationVars, sharedVars, loopVars>>
notChunks == <<hookVars, avatarVars, adapterVars, visemeVars, prepareVars, recognizerVars, captureVars, chatVars, frameVars, durationVars, sharedVars, loopVars>>
notLoop == <<hookVars, avatarVars, adapterVars, visemeVars, chunkVars, prepareVars, recognizerVars, captureVars, chatVars, frameVars, durationVars, sharedVars>>
notShared == <<hookVars, avatarVars, adapterVars, visemeVars, chunkVars, prepareVars, recognizerVars, captureVars, chatVars, frameVars, durationVars, loopVars>>
notDuration == <<hookVars, avatarVars, adapterVars, visemeVars, chunkVars, prepareVars, recognizerVars, captureVars, chatVars, frameVars, sharedVars, loopVars>>
notFrames == <<hookVars, avatarVars, adapterVars, visemeVars, chunkVars, prepareVars, recognizerVars, captureVars, chatVars, durationVars, sharedVars, loopVars>>
notChat == <<hookVars, avatarVars, adapterVars, visemeVars, chunkVars, prepareVars, recognizerVars, captureVars, frameVars, durationVars, sharedVars, loopVars>>
notCapture == <<hookVars, avatarVars, adapterVars, visemeVars, chunkVars, prepareVars, recognizerVars, chatVars, frameVars, durationVars, sharedVars, loopVars>>
notToken == <<hookVars, avatarVars, elVars, provider, visemeVars, chunkVars, prepareVars, captureVars, chatVars, frameVars, durationVars, sharedVars, loopVars>>
notPrepare == <<hookVars, avatarVars, adapterVars, visemeVars, chunkVars, recognizerVars, captureVars, chatVars, frameVars, durationVars, sharedVars, loopVars>>

(***************************************************************************)
(* useSpeechAvatar                                                         *)
(***************************************************************************)
InitHook ==
  /\ isInitialized = FALSE
  /\ isSpeaking = FALSE
  /\ isLoading = FALSE
  /\ error = "none"
  /\ visemeData = 0
  /\ audioBuffer = 0
  /\ isCancelled = FALSE
  /\ callPc = [k \in Calls |-> "idle"]
  /\ callRet = [k \in Calls |-> "none"]
  /\ overlapped = {}
  /\ cancelledCalls = {}
  /\ hookOp = "none"

\* The mount effect: the provider's key is configured or it is not.
initializeSpeech(keyConfigured) ==
  /\ UNCHANGED notHook
  /\ hookOp' = "initializeSpeech"
  /\ UNCHANGED cancelledCalls
  /\ ~isInitialized
  /\ error = "none"
  /\ IF keyConfigured
       THEN /\ isInitialized' = TRUE
            /\ error' = "none"
       ELSE /\ error' = "config"
            /\ UNCHANGED isInitialized
  /\ UNCHANGED <<isSpeaking, isLoading, visemeData, audioBuffer, isCancelled,
                 callPc, callRet, overlapped>>

\* speakWithLipSync(text) up to its await of synthesizeSpeechWithVisemes.
speakWithLipSync(k, textIsBlank) ==
  /\ UNCHANGED notHook
  /\ hookOp' = "speakWithLipSync"
  /\ UNCHANGED cancelledCalls
  /\ callPc[k] = "idle"
  /\ \A j \in Calls : j < k => callPc[j] # "idle"
  /\ IF ~isInitialized
       THEN /\ callPc' = [callPc EXCEPT ![k] = "done"]
            /\ callRet' = [callRet EXCEPT ![k] = "threw"]
            /\ UNCHANGED <<isLoading, error, isCancelled, overlapped>>
       ELSE IF textIsBlank
         THEN /\ callPc' = [callPc EXCEPT ![k] = "done"]
              /\ callRet' = [callRet EXCEPT ![k] = "zero"]
              /\ UNCHANGED <<isLoading, error, isCancelled, overlapped>>
         ELSE /\ isCancelled' = FALSE
              /\ isLoading' = TRUE
              /\ error' = "none"
              /\ callPc' = [callPc EXCEPT ![k] = "awaiting"]
              /\ overlapped' = overlapped \cup {j \in Calls : callPc[j] = "awaiting"}
              /\ UNCHANGED callRet
  /\ UNCHANGED <<isInitialized, isSpeaking, visemeData, audioBuffer>>

\* The continuation of speakWithLipSync after the adapter resolved.
synthesisResolved(k) ==
  /\ UNCHANGED notHook
  /\ hookOp' = "synthesisResolved"
  /\ UNCHANGED cancelledCalls
  /\ callPc[k] = "awaiting"
  /\ callPc' = [callPc EXCEPT ![k] = "done"]
  /\ IF isCancelled
       THEN /\ isLoading' = FALSE
            /\ callRet' = [callRet EXCEPT ![k] = "zero"]
            /\ UNCHANGED <<isSpeaking, visemeData, audioBuffer>>
       ELSE /\ isLoading' = FALSE
            /\ isSpeaking' = TRUE
            /\ visemeData' = k
            /\ audioBuffer' = k
            /\ callRet' = [callRet EXCEPT ![k] = "duration"]
  /\ UNCHANGED <<isInitialized, error, isCancelled, overlapped>>

\* (variant: the catch block lets the failure through and clears the playback state)
synthesisRejected_rethrows(k) ==
  /\ UNCHANGED notHook
  /\ hookOp' = "synthesisRejected"
  /\ UNCHANGED cancelledCalls
  /\ callPc[k] = "awaiting"
  /\ callPc' = [callPc EXCEPT ![k] = "done"]
  /\ callRet' = [callRet EXCEPT ![k] = "threw"]
  /\ isLoading' = FALSE
  /\ error' = "synthesis"
  /\ audioBuffer' = 0
  /\ UNCHANGED <<isInitialized, isSpeaking, visemeData, isCancelled, overlapped>>

\* The catch block of speakWithLipSync: the adapter rejected.
synthesisRejected(k) ==
  /\ UNCHANGED notHook
  /\ hookOp' = "synthesisRejected"
  /\ UNCHANGED cancelledCalls
  /\ callPc[k] = "awaiting"
  /\ callPc' = [callPc EXCEPT ![k] = "done"]
  /\ callRet' = [callRet EXCEPT ![k] = "zero"]
  /\ isLoading' = FALSE
  /\ error' = "synthesis"
  /\ UNCHANGED <<isInitialized, isSpeaking, visemeData, audioBuffer, isCancelled,
                 overlapped>>

cancelSpeech ==
  /\ UNCHANGED notHook
  /\ hookOp' = "cancelSpeech"
  /\ cancelledCalls' = cancelledCalls \cup {j \in Calls : callPc[j] = "awaiting"}
  /\ isInitialized
  /\ isCancelled' = TRUE
  /\ isSpeaking' = FALSE
  /\ visemeData' = 0
  /\ audioBuffer' = 0
  /\ UNCHANGED <<isInitialized, isLoading, error, callPc, callRet, overlapped>>

\* onSpeechStart of the Avatar
handleSpeechStart ==
  /\ UNCHANGED notHook
  /\ hookOp' = "handleSpeechStart"
  /\ UNCHANGED cancelledCalls
  /\ isInitialized
  /\ isSpeaking' = TRUE
  /\ UNCHANGED <<isInitialized, isLoading, error, visemeData, audioBuffer,
                 isCancelled, callPc, callRet, overlapped>>

\* onSpeechEnd of the Avatar
handleSpeechEnd ==
  /\ UNCHANGED notHook
  /\ hookOp' = "handleSpeechEnd"
  /\ UNCHANGED cancelledCalls
  /\ isInitialized
  /\ isSpeaking' = FALSE
  /\ visemeData' = 0
  /\ audioBuffer' = 0
  /\ UNCHANGED <<isInitialized, isLoading, error, isCancelled, callPc, callRet,
                 overlapped>>

\* speakWithoutLipSync(text) up to its await of synthesizeSpeechOnly.  Its calls are
\* numbered with those of speakWithLipSync; while it awaits, callPc is "awaitingOnly".
speakWithoutLipSync(k, textIsBlank) ==
  /\ UNCHANGED notHook
  /\ hookOp' = "speakWithoutLipSync"
  /\ UNCHANGED cancelledCalls
  /\ callPc[k] = "idle"
  /\ \A j \in Calls : j < k => callPc[j] # "idle"
  /\ IF ~isInitialized
       THEN /\ callPc' = [callPc EXCEPT ![k] = "done"]
            /\ callRet' = [callRet EXCEPT ![k] = "threw"]
            /\ UNCHANGED <<isLoading, error>>
       ELSE IF textIsBlank
         THEN /\ callPc' = [callPc EXCEPT ![k] = "done"]
              /\ callRet' = [callRet EXCEPT ![k] = "void"]
              /\ UNCHANGED <<isLoading, error>>
         ELSE /\ isLoading' = TRUE
              /\ error' = "none"
              /\ callPc' = [callPc EXCEPT ![k] = "awaitingOnly"]
              /\ UNCHANGED callRet
  /\ UNCHANGED <<isInitialized, isSpeaking, visemeData, audioBuffer, isCancelled,
                 overlapped>>

\* The continuation of speakWithoutLipSync after the adapter resolved.
speechOnlyResolved(k) ==
  /\ UNCHANGED notHook
  /\ hookOp' = "speechOnlyResolved"
  /\ UNCHANGED cancelledCalls
  /\ callPc[k] = "awaitingOnly"
  /\ callPc' = [callPc EXCEPT ![k] = "done"]
  /\ callRet' = [callRet EXCEPT ![k] = "void"]
  /\ isLoading' = FALSE
  /\ visemeData' = 0
  /\ audioBuffer' = k
  /\ UNCHANGED <<isInitialized, isSpeaking, error, isCancelled, overlapped>>

\* The catch block of speakWithoutLipSync: the adapter rejected.
speechOnlyRejected(k) ==
  /\ UNCHANGED notHook
  /\ hookOp' = "speechOnlyRejected"
  /\ UNCHANGED cancelledCalls
  /\ callPc[k] = "awaitingOnly"
  /\ callPc' = [callPc EXCEPT ![k] = "done"]
  /\ callRet' = [callRet EXCEPT ![k] = "void"]
  /\ isLoading' = FALSE
  /\ error' = "synthesis"
  /\ UNCHANGED <<isInitialized, isSpeaking, visemeData, audioBuffer, isCancelled,
                 overlapped>>

NextHook ==
  \/ \E keyConfigured \in BOOLEAN : initializeSpeech(keyConfigured)
  \/ \E k \in Calls, textIsBlank \in BOOLEAN : speakWithLipSync(k, textIsBlank)
  \/ \E k \in Calls : synthesisResolved(k)
  \/ \E k \in Calls : synthesisRejected(k)
  \/ cancelSpeech
  \/ handleSpeechStart
  \/ handleSpeechEnd

\* the hook with both of its speak functions in use
NextHookBoth ==
  \/ NextHook
  \/ \E k \in Calls, textIsBlank \in BOOLEAN : speakWithoutLipSync(k, textIsBlank)
  \/ \E k \in Calls : speechOnlyResolved(k)
  \/ \E k \in Calls : speechOnlyRejected(k)

(***************************************************************************)
(* Avatar: the viseme playback engine                                      *)
(***************************************************************************)
Copies == {"part_014", "EndChatModal"}

\* What one handler run did: the callbacks it fired (onSpeechEnd, onSpeechStart), the
\* element.play() calls it made, whether play() was refused (NotAllowedError), the
\* object URL it revoked (0: none) and whether it set the mouth to neutral.
Event(op, run, ends, starts, plays, blocked, revoked, reset) ==
  [op |-> op, run |-> run, ends |-> ends, starts |-> starts, plays |-> plays,
   blocked |-> blocked, revoked |-> revoked, reset |-> reset]

NoEvent == Event("none", 0, 0, 0, 0, FALSE, 0, FALSE)

InitAvatar ==
  /\ avatarSrc \in Copies
  /\ currentMouthShape = "neutral"
  /\ objectUrlRef = 0
  /\ liveUrls = {}
  /\ animationRef = 0
  /\ rafPending = [k \in Plays |-> 0]
  /\ pendingResumeHandlerRef = 0
  /\ listeners = {}
  /\ elState = "paused"
  /\ elSrc = 0
  /\ playPromise = [k \in Plays |-> "none"]
  /\ awaitedBy = [k \in Plays |-> "main"]
  /\ hasVisemes = [k \in Plays |-> FALSE]
  /\ attempts = [k \in Plays |-> 0]
  /\ startCount = [k \in Plays |-> 0]
  /\ interrupted = {}
  /\ endedSince = FALSE
  /\ propIsSpeaking = FALSE
  /\ effectDue = FALSE
  /\ ev = NoEvent

\* Number of animation-frame requests scheduled and not yet run or cancelled.
RECURSIVE SumRaf(_, _)
SumRaf(raf, n) == IF n = 0 THEN 0 ELSE raf[n] + SumRaf(raf, n - 1)

ScheduledLoops == SumRaf(rafPending, MaxPlays)

\* Faulty variant of cleanupObjectUrl: the ref is cleared but the URL is never revoked.
cleanupObjectUrl_noRevoke(live, ref) == live

\* cleanupObjectUrl(): the URLs left alive once objectUrlRef.current is revoked.
cleanupObjectUrl(live, ref) == IF ref # 0 THEN live \ {ref} ELSE live

\* cancelAnimationFrame(animationRef.current) under `animationRef.current !== null`.
cancelAnimation(raf, ref) ==
  IF ref # 0 /\ raf[ref] > 0 THEN [raf EXCEPT ![ref] = @ - 1] ELSE raf

\* HTMLMediaElement.pause(): when the element is not paused, every pending play()
\* promise is rejected with AbortError (the handlers run in a later task).
pauseElement(state, promises) ==
  IF state \in {"pending", "playing"}
    THEN [k \in Plays |-> IF promises[k] = "pending" THEN "aborted" ELSE promises[k]]
    ELSE promises

\* removeEventListener('pointerdown' / 'keydown', pendingResumeHandlerRef.current)
removeResumeListeners(lst, handler) == IF handler # 0 THEN lst \ {handler} ELSE lst

\* startPlayback() of run k up to its await of element.play(), called from the body
\* of playAudioWithVisemes (who = "main") or from resume (who = "resume").  A play()
\* the browser does not allow is rejected at once with NotAllowedError, so the catch
\* branch belongs to the same step.  promises, raf, aref, lst and handler are the
\* values left by the statements that ran before the call, speakingIn is the
\* isSpeaking prop at that point and revoked the URL the caller has just revoked.
startPlayback(k, who, allowed, promises, raf, aref, lst, handler, speakingIn, revoked) ==
  LET modal == avatarSrc = "EndChatModal"
  IN
  /\ rafPending' = IF modal THEN cancelAnimation(raf, aref) ELSE raf
  /\ animationRef' = IF modal THEN 0 ELSE aref
  /\ attempts' = [attempts EXCEPT ![k] = @ + 1]
  /\ awaitedBy' = [awaitedBy EXCEPT ![k] = who]
  /\ IF allowed
       THEN /\ playPromise' = [promises EXCEPT ![k] = "pending"]
            /\ elState' = "pending"
            /\ listeners' = lst
            /\ pendingResumeHandlerRef' = handler
            /\ propIsSpeaking' = speakingIn
            /\ effectDue' = (effectDue \/ speakingIn # propIsSpeaking)
            /\ ev' = Event(who, k, 0, 0, 1, FALSE, revoked, FALSE)
            /\ UNCHANGED currentMouthShape
       ELSE /\ playPromise' = [promises EXCEPT ![k] = "settled"]
            /\ elState' = "paused"
            \* onSpeechEnd?.()
            /\ propIsSpeaking' = FALSE
            /\ effectDue' = (effectDue \/ speakingIn \/ propIsSpeaking)
            /\ currentMouthShape' = IF modal THEN "neutral" ELSE currentMouthShape
            /\ IF handler = 0
                 THEN /\ pendingResumeHandlerRef' = k
                      /\ listeners' = lst \cup {k}
                 ELSE /\ pendingResumeHandlerRef' = handler
                      /\ listeners' = lst
            /\ ev' = Event(who, k, 1, 0, 1, TRUE, revoked, modal)

\* The audioBuffer effect found a new buffer and ran playAudioWithVisemes() up to
\* `await startPlayback()`.  The parent set isSpeaking with the buffer.
playAudioWithVisemes(k, visemes, allowed) ==
  /\ UNCHANGED notAvatar
  /\ playPromise[k] = "none"
  /\ attempts[k] = 0
  /\ \A j \in Plays : j < k => attempts[j] > 0
  /\ hasVisemes' = [hasVisemes EXCEPT ![k] = visemes]
  /\ objectUrlRef' = k
  /\ liveUrls' = cleanupObjectUrl(liveUrls, objectUrlRef) \cup {k}
  /\ elSrc' = k
  /\ endedSince' = FALSE
  /\ startPlayback(k, "main", allowed,
                   pauseElement(elState, playPromise),
                   rafPending, animationRef,
                   removeResumeListeners(listeners, pendingResumeHandlerRef), 0,
                   TRUE, objectUrlRef)
  /\ UNCHANGED <<avatarSrc, startCount, interrupted>>

\* element.play() of run k resolved: the rest of startPlayback's try block.
playResolved(k) ==
  /\ UNCHANGED notAvatar
  /\ playPromise[k] = "pending"
  /\ playPromise' = [playPromise EXCEPT ![k] = "settled"]
  /\ elState' = "playing"
  /\ startCount' = [startCount EXCEPT ![k] = @ + 1]
  /\ propIsSpeaking' = TRUE
  /\ effectDue' = (effectDue \/ ~propIsSpeaking)
  /\ endedSince' = FALSE
  /\ IF hasVisemes[k]
       THEN /\ rafPending' = [rafPending EXCEPT ![k] = @ + 1]
            /\ animationRef' = k
            /\ UNCHANGED currentMouthShape
       ELSE /\ currentMouthShape' = "aa"
            /\ UNCHANGED <<rafPending, animationRef>>
  /\ ev' = Event("playResolved", k, 0, 1, 0, FALSE, 0, FALSE)
  /\ UNCHANGED <<avatarSrc, objectUrlRef, liveUrls, pendingResumeHandlerRef, listeners,
                 elSrc, awaitedBy, hasVisemes, attempts, interrupted>>

\* The catch block that receives an error startPlayback rethrows: the one of
\* playAudioWithVisemes, or the one of resume; both run the same three statements.
playbackCatch(k, op) ==
  /\ playPromise' = [playPromise EXCEPT ![k] = "settled"]
  /\ propIsSpeaking' = FALSE
  /\ effectDue' = (effectDue \/ propIsSpeaking)
  /\ currentMouthShape' = "neutral"
  /\ liveUrls' = cleanupObjectUrl(liveUrls, objectUrlRef)
  /\ objectUrlRef' = 0
  /\ ev' = Event(op, k, 1, 0, 0, FALSE, objectUrlRef, TRUE)
  /\ UNCHANGED <<avatarSrc, animationRef, rafPending, pendingResumeHandlerRef,
                 listeners, elSrc, awaitedBy, hasVisemes, attempts, startCount,
                 interrupted, endedSince>>

\* The play() promise of run k was rejected with AbortError by a later pause().
playAborted(k) ==
  /\ UNCHANGED notAvatar
  /\ playPromise[k] = "aborted"
  /\ playbackCatch(k, "playAborted")
  /\ UNCHANGED elState

\* The play() promise of run k was rejected for another reason (the media failed).
playFailed(k) ==
  /\ UNCHANGED notAvatar
  /\ playPromise[k] = "pending"
  /\ elState' = "paused"
  /\ playbackCatch(k, "playFailed")

\* Faulty variant of resume: the handler does not remove itself from the document.
resume_staysArmed(k, allowed) ==
  /\ UNCHANGED notAvatar
  /\ k \in listeners
  /\ attempts[k] < MaxAttempts
  /\ startPlayback(k, "resume", allowed, playPromise, rafPending, animationRef,
                   listeners, 0, propIsSpeaking, 0)
  /\ UNCHANGED <<avatarSrc, objectUrlRef, liveUrls, elSrc, hasVisemes, startCount,
                 interrupted, endedSince>>

\* resume(): the first pointerdown or keydown after a blocked start.
resume(k, allowed) ==
  /\ UNCHANGED notAvatar
  /\ k \in listeners
  /\ attempts[k] < MaxAttempts
  /\ startPlayback(k, "resume", allowed, playPromise, rafPending, animationRef,
                   listeners \ {k}, 0, propIsSpeaking, 0)
  /\ UNCHANGED <<avatarSrc, objectUrlRef, liveUrls, elSrc, hasVisemes, startCount,
                 interrupted, endedSince>>

\* One run of animateVisemes from run k's closure.
animateVisemes(k, shape) ==
  /\ UNCHANGED notAvatar
  /\ rafPending[k] > 0
  /\ IF ~hasVisemes[k]
       THEN /\ rafPending' = [rafPending EXCEPT ![k] = @ - 1]
            /\ animationRef' = 0
            /\ UNCHANGED currentMouthShape
       ELSE /\ currentMouthShape' = shape
            /\ animationRef' = k
            /\ UNCHANGED rafPending
  /\ ev' = Event("animateVisemes", k, 0, 0, 0, FALSE, 0,
                 hasVisemes[k] /\ shape = "neutral")
  /\ UNCHANGED <<avatarSrc, objectUrlRef, liveUrls, pendingResumeHandlerRef, listeners,
                 elState, elSrc, playPromise, awaitedBy, hasVisemes, attempts,
                 startCount, interrupted, endedSince, propIsSpeaking, effectDue>>

\* The runs a stopSpeech() cuts short: a pending play(), the playing source, an
\* armed resume.
Active ==
  {k \in Plays : playPromise[k] = "pending"}
    \cup (IF elState = "playing" THEN {elSrc} ELSE {})
    \cup (IF pendingResumeHandlerRef # 0 THEN {pendingResumeHandlerRef} ELSE {})

\* Faulty variant of stopSpeech: the armed resume handler is left on the document.
stopSpeech_keepsListener ==
  /\ UNCHANGED notAvatar
  /\ playPromise' = pauseElement(elState, playPromise)
  /\ elState' = "paused"
  /\ rafPending' = cancelAnimation(rafPending, animationRef)
  /\ animationRef' = 0
  /\ currentMouthShape' = "neutral"
  /\ liveUrls' = cleanupObjectUrl(liveUrls, objectUrlRef)
  /\ objectUrlRef' = 0
  /\ propIsSpeaking' = FALSE
  /\ effectDue' = (effectDue \/ propIsSpeaking)
  /\ interrupted' = interrupted \cup Active
  /\ ev' = Event("stopSpeech", 0, 1, 0, 0, FALSE, objectUrlRef, TRUE)
  /\ UNCHANGED <<avatarSrc, elSrc, awaitedBy, hasVisemes, attempts, startCount,
                 endedSince, listeners, pendingResumeHandlerRef>>

\* stopSpeech()
stopSpeech ==
  /\ UNCHANGED notAvatar
  /\ playPromise' = pauseElement(elState, playPromise)
  /\ elState' = "paused"
  /\ rafPending' = cancelAnimation(rafPending, animationRef)
  /\ animationRef' = 0
  /\ listeners' = removeResumeListeners(listeners, pendingResumeHandlerRef)
  /\ pendingResumeHandlerRef' = 0
  /\ currentMouthShape' = "neutral"
  /\ liveUrls' = cleanupObjectUrl(liveUrls, objectUrlRef)
  /\ objectUrlRef' = 0
  /\ propIsSpeaking' = FALSE
  /\ effectDue' = (effectDue \/ propIsSpeaking)
  /\ interrupted' = interrupted \cup Active
  /\ ev' = Event("stopSpeech", 0, 1, 0, 0, FALSE, objectUrlRef, TRUE)
  /\ UNCHANGED <<avatarSrc, elSrc, awaitedBy, hasVisemes, attempts, startCount,
                 endedSince>>

\* The 'ended' listener of the audio element.
handleEnded ==
  /\ UNCHANGED notAvatar
  /\ elState = "playing"
  /\ elState' = "ended"
  /\ IF avatarSrc = "EndChatModal"
       THEN /\ currentMouthShape' = "neutral"
            /\ rafPending' = cancelAnimation(rafPending, animationRef)
            /\ animationRef' = 0
       ELSE UNCHANGED <<currentMouthShape, rafPending, animationRef>>
  /\ liveUrls' = cleanupObjectUrl(liveUrls, objectUrlRef)
  /\ objectUrlRef' = 0
  /\ propIsSpeaking' = FALSE
  /\ effectDue' = (effectDue \/ propIsSpeaking)
  /\ endedSince' = TRUE
  /\ ev' = Event("handleEnded", elSrc, 1, 0, 0, FALSE, objectUrlRef,
                 avatarSrc = "EndChatModal")
  /\ UNCHANGED <<avatarSrc, pendingResumeHandlerRef, listeners, elSrc, playPromise,
                 awaitedBy, hasVisemes, attempts, startCount, interrupted>>

\* useEffect(() => { if (!isSpeaking) setCurrentMouthShape('neutral') }, [isSpeaking])
\* of the EndChatModal.tsx copy.
isSpeakingEffect ==
  /\ UNCHANGED notAvatar
  /\ avatarSrc = "EndChatModal"
  /\ effectDue
  /\ effectDue' = FALSE
  /\ currentMouthShape' = IF propIsSpeaking THEN currentMouthShape ELSE "neutral"
  /\ ev' = Event("isSpeakingEffect", 0, 0, 0, 0, FALSE, 0, ~propIsSpeaking)
  /\ UNCHANGED <<avatarSrc, objectUrlRef, liveUrls, animationRef, rafPending,
                 pendingResumeHandlerRef, listeners, elState, elSrc, playPromise,
                 awaitedBy, hasVisemes, attempts, startCount, interrupted, endedSince,
                 propIsSpeaking>>

NextAvatar ==
  \/ \E k \in Plays, visemes \in BOOLEAN, allowed \in BOOLEAN :
       playAudioWithVisemes(k, visemes, allowed)
  \/ \E k \in Plays : playResolved(k)
  \/ \E k \in Plays : playAborted(k)
  \/ \E k \in Plays : playFailed(k)
  \/ \E k \in Plays, allowed \in BOOLEAN : resume(k, allowed)
  \/ \E k \in Plays, shape \in {"neutral", "viseme"} : animateVisemes(k, shape)
  \/ stopSpeech
  \/ handleEnded
  \/ isSpeakingEffect

(***************************************************************************)
(* AzureSpeechService                                                      *)
(*                                                                         *)
(* synthesizeSpeechWithVisemes and synthesizeSpeechOnly share one shape    *)
(* (guard, ensureAuthorizationToken, promiseState, timer, SDK callbacks);  *)
(* withVisemes tells them apart.  An await that never leaves the event     *)
(* loop's current task (ensureAuthorizationToken returning at once) is     *)
(* part of the step that reaches it.                                       *)
(***************************************************************************)
credVars == <<region, subscriptionKey, authorizationToken, getAuthorizationToken,
              tokenExpiresAt, speechConfig>>
synthVars == <<synthesizer, silentAudioStream, silentAudioCallback, created,
               closedSynths, closedStreams>>
sessionVars == <<activeSynthesisPromises, settled, azPromise, settleCalls,
                 settleWrites>>
requestVars == <<azPc, timer, sdk, usedSynth>>

InitAzure ==
  /\ region = FALSE
  /\ subscriptionKey = FALSE
  /\ authorizationToken = "null"
  /\ getAuthorizationToken = FALSE
  /\ tokenExpiresAt = "null"
  /\ speechConfig = FALSE
  /\ synthesizer = 0
  /\ silentAudioStream = 0
  /\ silentAudioCallback = FALSE
  /\ activeSynthesisPromises = {}
  /\ created = 0
  /\ closedSynths = {}
  /\ closedStreams = {}
  /\ azInits = 0
  /\ azInitPc = "idle"
  /\ azPc = [c \in AzCalls |-> "idle"]
  /\ settled = [c \in AzCalls |-> FALSE]
  /\ timer = [c \in AzCalls |-> "none"]
  /\ sdk = [c \in AzCalls |-> "none"]
  /\ azPromise = [c \in AzCalls |-> "pending"]
  /\ usedSynth = [c \in AzCalls |-> 0]
  /\ settleCalls = [c \in AzCalls |-> 0]
  /\ settleWrites = [c \in AzCalls |-> 0]

\* createSynthesizer(): a fresh silent stream and synthesizer, the old ones closed.
createSynthesizer ==
  /\ closedStreams' = closedStreams \cup
                        (IF silentAudioStream # 0 THEN {silentAudioStream} ELSE {})
  /\ silentAudioCallback' = TRUE
  /\ silentAudioStream' = created + 1
  /\ closedSynths' = closedSynths \cup (IF synthesizer # 0 THEN {synthesizer} ELSE {})
  /\ synthesizer' = created + 1
  /\ created' = created + 1

\* resetSynthesizerAfterFailure(): createSynthesizer() throws without a speechConfig
\* and the throw is swallowed.
resetSynthesizerAfterFailure ==
  IF speechConfig THEN createSynthesizer ELSE UNCHANGED synthVars

isTokenExpiringSoon == tokenExpiresAt \in {"null", "soon"}

needsRefresh == authorizationToken = "null" \/ isTokenExpiringSoon

\* initialize(config) up to its return, its throw, or its await of the token provider.
\* credential: what the config carries ("key", "provider", "static", "none",
\* "key+provider": a subscription key and a token provider, or "static+provider":
\* a token and a token provider).
azInitialize(regionGiven, credential) ==
  /\ UNCHANGED notAzure
  /\ provider = "azure"
  /\ disposed' = "no"
  /\ azInits < MaxInits
  /\ azInitPc = "idle"
  /\ azInits' = azInits + 1
  /\ region' = regionGiven
  /\ subscriptionKey' = (credential \in {"key", "key+provider"})
  /\ authorizationToken' = IF credential \in {"static", "static+provider"}
                             THEN "static" ELSE "null"
  /\ getAuthorizationToken' =
       (credential \in {"provider", "key+provider", "static+provider"})
  /\ UNCHANGED <<tokenExpiresAt, sessionVars, requestVars>>
  /\ IF ~regionGiven
       THEN /\ adEv' = "azInitFailed"
            /\ UNCHANGED <<speechConfig, synthVars, azInitPc>>
       ELSE IF \/ credential \in {"key", "key+provider", "static"}
               \/ (credential = "static+provider" /\ ~isTokenExpiringSoon)
         THEN /\ speechConfig' = TRUE
              /\ createSynthesizer
              /\ adEv' = "azInitialized"
              /\ UNCHANGED azInitPc
         ELSE IF credential \in {"provider", "static+provider"}
           THEN /\ azInitPc' = "awaitToken"
                /\ adEv' = "other"
                /\ UNCHANGED <<speechConfig, synthVars>>
           ELSE /\ adEv' = "azInitFailed"
                /\ UNCHANGED <<speechConfig, synthVars, azInitPc>>

\* initialize() after getAuthorizationToken() answered (answer: "token", "empty" or
\* "rejected").  SpeechConfig.fromAuthorizationToken throws on a null region.
azInitTokenArrived(answer, expiry) ==
  /\ UNCHANGED notAzure
  /\ provider = "azure"
  /\ UNCHANGED disposed
  /\ azInitPc = "awaitToken"
  /\ azInitPc' = "idle"
  /\ UNCHANGED <<region, subscriptionKey, getAuthorizationToken, azInits, sessionVars,
                 requestVars>>
  /\ IF answer = "token"
       THEN /\ authorizationToken' = "fresh"
            /\ tokenExpiresAt' = expiry
       ELSE UNCHANGED <<authorizationToken, tokenExpiresAt>>
  /\ IF answer # "rejected"
        /\ (answer = "token" \/ authorizationToken # "null")
        /\ region
       THEN /\ speechConfig' = TRUE
            /\ createSynthesizer
            /\ adEv' = "azInitialized"
       ELSE /\ adEv' = "azInitFailed"
            /\ UNCHANGED <<speechConfig, synthVars>>

\* The executor of `new Promise(...)`: the session is registered, the timer armed and
\* the request handed to the SDK.  A null synthesizer makes the executor throw after
\* the session was registered.
beginSynthesis(c) ==
  /\ activeSynthesisPromises' = activeSynthesisPromises \cup {c}
  /\ timer' = [timer EXCEPT ![c] = "armed"]
  /\ azPc' = [azPc EXCEPT ![c] = "inflight"]
  /\ IF synthesizer = 0
       THEN /\ azPromise' = [azPromise EXCEPT ![c] = "rejected"]
            /\ UNCHANGED <<sdk, usedSynth>>
       ELSE /\ sdk' = [sdk EXCEPT ![c] = "outstanding"]
            /\ usedSynth' = [usedSynth EXCEPT ![c] = synthesizer]
            /\ UNCHANGED azPromise
  /\ UNCHANGED <<settled, settleCalls, settleWrites>>

\* The async function throws before it creates the promise.
rejectEarly(c) ==
  /\ azPc' = [azPc EXCEPT ![c] = "done"]
  /\ azPromise' = [azPromise EXCEPT ![c] = "rejected"]
  /\ UNCHANGED <<activeSynthesisPromises, settled, settleCalls, settleWrites, timer,
                 sdk, usedSynth>>

\* synthesizeSpeechWithVisemes(text) / synthesizeSpeechOnly(text) up to the SDK call
\* or to the await of the token provider inside ensureAuthorizationToken.
azSynthesize(c, withVisemes) ==
  /\ UNCHANGED notAzure
  /\ provider = "azure"
  /\ disposed' = IF disposed = "no" THEN "no" ELSE "used"
  /\ azPc[c] = "idle"
  /\ \A j \in AzCalls : j < c => azPc[j] # "idle"
  /\ adEv' = "other"
  /\ UNCHANGED <<credVars, synthVars, azInits, azInitPc>>
  /\ IF synthesizer = 0
       THEN rejectEarly(c)
       ELSE IF subscriptionKey \/ ~speechConfig \/ ~needsRefresh
         THEN beginSynthesis(c)
         ELSE IF getAuthorizationToken
           THEN /\ azPc' = [azPc EXCEPT ![c] = "ensuring"]
                /\ UNCHANGED <<sessionVars, timer, sdk, usedSynth>>
           ELSE IF authorizationToken = "null"
             THEN rejectEarly(c)
             ELSE beginSynthesis(c)

\* resolveAuthorizationToken / ensureAuthorizationToken / the synthesis call after
\* getAuthorizationToken() answered.
azTokenArrived(c, answer, expiry) ==
  /\ UNCHANGED notAzure
  /\ provider = "azure"
  /\ UNCHANGED disposed
  /\ azPc[c] = "ensuring"
  /\ adEv' = "other"
  /\ UNCHANGED <<region, subscriptionKey, getAuthorizationToken, speechConfig,
                 synthVars, azInits, azInitPc>>
  /\ IF answer = "token"
       THEN /\ authorizationToken' = "fresh"
            /\ tokenExpiresAt' = expiry
       ELSE UNCHANGED <<authorizationToken, tokenExpiresAt>>
  /\ IF answer # "rejected"
        /\ (answer = "token" \/ authorizationToken # "null")
        /\ speechConfig
       THEN beginSynthesis(c)
       ELSE rejectEarly(c)

\* Date.now() reaches the refresh window of the held token.
tokenAges ==
  /\ UNCHANGED notAzure
  /\ provider = "azure"
  /\ UNCHANGED disposed
  /\ tokenExpiresAt = "later"
  /\ tokenExpiresAt' = "soon"
  /\ adEv' = "other"
  /\ UNCHANGED <<region, subscriptionKey, authorizationToken, getAuthorizationToken,
                 speechConfig, synthVars, sessionVars, requestVars, azInits, azInitPc>>

\* `if (promiseState.settled || !this.activeSynthesisPromises.has(promiseState)) return;`
isStale(c) == settled[c] \/ c \notin activeSynthesisPromises

\* promiseState.settled = true; activeSynthesisPromises.delete(promiseState); and the
\* resolve / reject that follows (a promise keeps its first outcome).
settle(c, outcome) ==
  /\ settled' = [settled EXCEPT ![c] = TRUE]
  /\ settleWrites' = [settleWrites EXCEPT ![c] = @ + 1]
  /\ activeSynthesisPromises' = activeSynthesisPromises \ {c}
  /\ azPromise' = [azPromise EXCEPT ![c] = IF @ = "pending" THEN outcome ELSE @]
  /\ settleCalls' = [settleCalls EXCEPT ![c] = @ + 1]
  /\ azPc' = [azPc EXCEPT ![c] = "done"]

\* Faulty variant of sdkSuccess: the result callback does not look at the session first.
sdkSuccess_noGuard(c, completed) ==
  /\ UNCHANGED notAzure
  /\ provider = "azure"
  /\ UNCHANGED disposed
  /\ sdk[c] = "outstanding"
  /\ sdk' = [sdk EXCEPT ![c] = "done"]
  /\ adEv' = "other"
  /\ UNCHANGED <<credVars, azInits, azInitPc, usedSynth, synthVars>>
  /\ settle(c, IF completed THEN "resolved" ELSE "rejected")
  /\ timer' = [timer EXCEPT ![c] = IF @ = "armed" THEN "cleared" ELSE @]

\* The result callback of speakSsmlAsync / speakTextAsync.
sdkSuccess(c, completed) ==
  /\ UNCHANGED notAzure
  /\ provider = "azure"
  /\ UNCHANGED disposed
  /\ sdk[c] = "outstanding"
  /\ sdk' = [sdk EXCEPT ![c] = "done"]
  /\ adEv' = "other"
  /\ UNCHANGED <<credVars, azInits, azInitPc, usedSynth, synthVars>>
  /\ IF isStale(c)
       THEN UNCHANGED <<sessionVars, azPc, timer>>
       ELSE /\ settle(c, IF completed THEN "resolved" ELSE "rejected")
            /\ timer' = [timer EXCEPT ![c] = IF @ = "armed" THEN "cleared" ELSE @]

\* The error callback of speakSsmlAsync / speakTextAsync.
sdkError(c) ==
  /\ UNCHANGED notAzure
  /\ provider = "azure"
  /\ UNCHANGED disposed
  /\ sdk[c] = "outstanding"
  /\ sdk' = [sdk EXCEPT ![c] = "done"]
  /\ adEv' = "other"
  /\ UNCHANGED <<credVars, azInits, azInitPc, usedSynth>>
  /\ IF isStale(c)
       THEN UNCHANGED <<sessionVars, azPc, timer, synthVars>>
       ELSE /\ settle(c, "rejected")
            /\ timer' = [timer EXCEPT ![c] = IF @ = "armed" THEN "cleared" ELSE @]
            /\ resetSynthesizerAfterFailure

\* The window.setTimeout callback, synthesisTimeoutMs after the call.
timeoutFires(c) ==
  /\ UNCHANGED notAzure
  /\ provider = "azure"
  /\ UNCHANGED disposed
  /\ timer[c] = "armed"
  /\ timer' = [timer EXCEPT ![c] = "fired"]
  /\ adEv' = "other"
  /\ UNCHANGED <<credVars, azInits, azInitPc, usedSynth, sdk>>
  /\ IF isStale(c)
       THEN UNCHANGED <<sessionVars, azPc, synthVars>>
       ELSE /\ settle(c, "rejected")
            /\ resetSynthesizerAfterFailure

\* Faulty variant of azDispose: the sessions are marked settled but the set is not cleared.
azDispose_keepsSessions ==
  /\ UNCHANGED notAzure
  /\ provider = "azure"
  /\ disposed' = "yes"
  /\ settled' = [c \in AzCalls |->
                   IF c \in activeSynthesisPromises THEN TRUE ELSE settled[c]]
  /\ settleWrites' = [c \in AzCalls |->
                        IF c \in activeSynthesisPromises THEN settleWrites[c] + 1
                        ELSE settleWrites[c]]
  /\ closedSynths' = closedSynths \cup (IF synthesizer # 0 THEN {synthesizer} ELSE {})
  /\ synthesizer' = 0
  /\ speechConfig' = FALSE
  /\ subscriptionKey' = FALSE
  /\ authorizationToken' = "null"
  /\ getAuthorizationToken' = FALSE
  /\ tokenExpiresAt' = "null"
  /\ region' = FALSE
  /\ closedStreams' = closedStreams \cup
                        (IF silentAudioStream # 0 THEN {silentAudioStream} ELSE {})
  /\ silentAudioStream' = 0
  /\ silentAudioCallback' = FALSE
  /\ adEv' = "azDispose"
  /\ UNCHANGED <<activeSynthesisPromises, created, azInits, azInitPc, azPc, timer, sdk,
                 azPromise, usedSynth, settleCalls>>

\* dispose()
azDispose ==
  /\ UNCHANGED notAzure
  /\ provider = "azure"
  /\ disposed' = "yes"
  /\ settled' = [c \in AzCalls |->
                   IF c \in activeSynthesisPromises THEN TRUE ELSE settled[c]]
  /\ settleWrites' = [c \in AzCalls |->
                        IF c \in activeSynthesisPromises THEN settleWrites[c] + 1
                        ELSE settleWrites[c]]
  /\ activeSynthesisPromises' = {}
  /\ closedSynths' = closedSynths \cup (IF synthesizer # 0 THEN {synthesizer} ELSE {})
  /\ synthesizer' = 0
  /\ speechConfig' = FALSE
  /\ subscriptionKey' = FALSE
  /\ authorizationToken' = "null"
  /\ getAuthorizationToken' = FALSE
  /\ tokenExpiresAt' = "null"
  /\ region' = FALSE
  /\ closedStreams' = closedStreams \cup
                        (IF silentAudioStream # 0 THEN {silentAudioStream} ELSE {})
  /\ silentAudioStream' = 0
  /\ silentAudioCallback' = FALSE
  /\ adEv' = "azDispose"
  /\ UNCHANGED <<created, azInits, azInitPc, azPc, timer, sdk, azPromise, usedSynth,
                 settleCalls>>

(***************************************************************************)
(* ElevenLabsTTSService (one request per call: the text fits one chunk)    *)
(***************************************************************************)
InitEleven ==
  /\ elClient = FALSE
  /\ elApiKey = "null"
  /\ elVoiceId = FALSE
  /\ elInits = 0
  /\ elPc = [e \in ElCalls |-> "idle"]
  /\ elPromise = [e \in ElCalls |-> "pending"]

\* initialize(config); apiKey is what config.apiKey holds: "null", "placeholder", "key".
elInitialize(apiKey, voiceGiven) ==
  /\ UNCHANGED notEleven
  /\ provider = "elevenlabs"
  /\ disposed' = "no"
  /\ elInits < MaxInits
  /\ elInits' = elInits + 1
  /\ elApiKey' = apiKey
  /\ elVoiceId' = voiceGiven
  /\ elClient' = IF apiKey = "key" THEN TRUE ELSE elClient
  /\ adEv' = IF apiKey = "key" THEN "elInitialized" ELSE "elInitFailed"
  /\ UNCHANGED <<elPc, elPromise>>

\* synthesizeSpeechWithVisemes / synthesizeSpeechOnly up to the await of
\* client.textToSpeech.convert(...).
elSynthesize(e, withVisemes) ==
  /\ UNCHANGED notEleven
  /\ provider = "elevenlabs"
  /\ disposed' = IF disposed = "no" THEN "no" ELSE "used"
  /\ elPc[e] = "idle"
  /\ \A j \in ElCalls : j < e => elPc[j] # "idle"
  /\ adEv' = "other"
  /\ IF ~elClient \/ ~elVoiceId
       THEN /\ elPc' = [elPc EXCEPT ![e] = "done"]
            /\ elPromise' = [elPromise EXCEPT ![e] = "rejected"]
       ELSE /\ elPc' = [elPc EXCEPT ![e] = "converting"]
            /\ UNCHANGED elPromise
  /\ UNCHANGED <<elClient, elApiKey, elVoiceId, elInits>>

\* The provider answered and the audio stream was read to its end: getAudioDuration
\* awaits decodeAudioData.
elAudioReceived(e) ==
  /\ UNCHANGED notEleven
  /\ provider = "elevenlabs"
  /\ UNCHANGED disposed
  /\ elPc[e] = "converting"
  /\ elPc' = [elPc EXCEPT ![e] = "decoding"]
  /\ adEv' = "other"
  /\ UNCHANGED <<elClient, elApiKey, elVoiceId, elInits, elPromise>>

\* convert() or the stream threw: the catch block rethrows a wrapped error.
elRequestFailed(e) ==
  /\ UNCHANGED notEleven
  /\ provider = "elevenlabs"
  /\ UNCHANGED disposed
  /\ elPc[e] = "converting"
  /\ elPc' = [elPc EXCEPT ![e] = "done"]
  /\ elPromise' = [elPromise EXCEPT ![e] = "rejected"]
  /\ adEv' = "other"
  /\ UNCHANGED <<elClient, elApiKey, elVoiceId, elInits>>

\* getAudioDuration returned (decoded, or estimated after a decode failure) and the
\* result was built.
elDurationKnown(e) ==
  /\ UNCHANGED notEleven
  /\ provider = "elevenlabs"
  /\ UNCHANGED disposed
  /\ elPc[e] = "decoding"
  /\ elPc' = [elPc EXCEPT ![e] = "done"]
  /\ elPromise' = [elPromise EXCEPT ![e] = "resolved"]
  /\ adEv' = "other"
  /\ UNCHANGED <<elClient, elApiKey, elVoiceId, elInits>>

\* Faulty variant of elDispose: the client is kept.
elDispose_keepsClient ==
  /\ UNCHANGED notEleven
  /\ provider = "elevenlabs"
  /\ disposed' = "yes"
  /\ elApiKey' = "null"
  /\ adEv' = "elDispose"
  /\ UNCHANGED <<elClient, elVoiceId, elInits, elPc, elPromise>>

\* dispose()
elDispose ==
  /\ UNCHANGED notEleven
  /\ provider = "elevenlabs"
  /\ disposed' = "yes"
  /\ elClient' = FALSE
  /\ elApiKey' = "null"
  /\ elVoiceId' = FALSE
  /\ adEv' = "elDispose"
  /\ UNCHANGED <<elInits, elPc, elPromise>>

InitAdapters ==
  /\ provider \in {"azure", "elevenlabs"}
  /\ InitAzure
  /\ InitEleven
  /\ adEv = "none"
  /\ disposed = "no"

NextAdapters ==
  \/ \E regionGiven \in BOOLEAN, credential \in {"key", "provider", "static", "none"} :
       azInitialize(regionGiven, credential)
  \/ \E answer \in {"token", "empty", "rejected"}, expiry \in {"null", "later", "soon"} :
       azInitTokenArrived(answer, expiry)
  \/ \E c \in AzCalls, withVisemes \in BOOLEAN : azSynthesize(c, withVisemes)
  \/ \E c \in AzCalls, answer \in {"token", "empty", "rejected"},
        expiry \in {"null", "later", "soon"} : azTokenArrived(c, answer, expiry)
  \/ tokenAges
  \/ \E c \in AzCalls, completed \in BOOLEAN : sdkSuccess(c, completed)
  \/ \E c \in AzCalls : sdkError(c)
  \/ \E c \in AzCalls : timeoutFires(c)
  \/ azDispose
  \/ \E apiKey \in {"null", "placeholder", "key"}, voiceGiven \in BOOLEAN :
       elInitialize(apiKey, voiceGiven)
  \/ \E e \in ElCalls, withVisemes \in BOOLEAN : elSynthesize(e, withVisemes)
  \/ \E e \in ElCalls : elAudioReceived(e)
  \/ \E e \in ElCalls : elRequestFailed(e)
  \/ \E e \in ElCalls : elDurationKnown(e)
  \/ elDispose

(***************************************************************************)
(* Viseme timelines: what the adapters return as visemeData                *)
(***************************************************************************)
VisemeEvent(offset, id) == [audioOffset |-> offset, visemeId |-> id]

InitVisemes ==
  /\ collected = <<>>
  /\ timeline = <<>>
  /\ results = <<>>
  /\ ttsResult = <<>>

\* Array.prototype.sort((a, b) => a.audioOffset - b.audioOffset): the sort is stable,
\* an event goes behind every event whose offset is not larger.
RECURSIVE insertByOffset(_, _)
insertByOffset(sorted, e) ==
  IF sorted = <<>> THEN <<e>>
  ELSE IF sorted[Len(sorted)].audioOffset <= e.audioOffset
    THEN Append(sorted, e)
    ELSE Append(insertByOffset(SubSeq(sorted, 1, Len(sorted) - 1), e),
                sorted[Len(sorted)])

\* Faulty variant of sortByOffset: the array is returned as the events arrived.
sortByOffset_asArrived(events) == events

RECURSIVE sortByOffset(_)
sortByOffset(events) ==
  IF events = <<>> THEN <<>>
  ELSE insertByOffset(sortByOffset(SubSeq(events, 1, Len(events) - 1)),
                      events[Len(events)])

\* synthesizer.visemeReceived of AzureSpeechService: one event is pushed.  offset is
\* event.audioOffset in ticks; the division by 10000 keeps the order, so the
\* timeline keeps the tick count as its unit.
visemeReceived(offset, id) ==
  /\ UNCHANGED notVisemes
  /\ provider = "azure"
  /\ timeline = <<>>
  /\ Len(collected) < MaxVisemes
  /\ collected' = Append(collected, VisemeEvent(offset, id))
  /\ UNCHANGED <<timeline, results, ttsResult>>

\* The result callback of speakSsmlAsync resolves with the sorted array.
synthesisCompleted ==
  /\ UNCHANGED notVisemes
  /\ provider = "azure"
  /\ timeline = <<>>
  /\ timeline' = <<sortByOffset(collected)>>
  /\ UNCHANGED <<collected, results, ttsResult>>

\* `const interval = 50`
interval == 50

\* The while loop of generateApproximateVisemes.  pattern is the sequence of ids the
\* random draws came to (0 for a pause, else one of activeVisemes), used cyclically;
\* made is the number of events pushed so far.
RECURSIVE generateLoop(_, _, _, _)
generateLoop(currentTime, duration, pattern, made) ==
  IF currentTime < duration
    THEN <<VisemeEvent(currentTime, pattern[(made % Len(pattern)) + 1])>>
           \o generateLoop(currentTime + interval, duration, pattern, made + 1)
    ELSE <<>>

\* Faulty variant of generateApproximateVisemes: the closing event is forgotten.
generateApproximateVisemes_open(duration, pattern) ==
  generateLoop(0, duration, pattern, 0)

generateApproximateVisemes(duration, pattern) ==
  generateLoop(0, duration, pattern, 0) \o <<VisemeEvent(duration, 0)>>

\* What synthesizeSingleChunk returns for a chunk whose audio the provider sent and
\* whose duration getAudioDuration found.
synthesizeSingleChunk(audio, duration, pattern) ==
  [audioBuffer |-> audio,
   visemeData |-> generateApproximateVisemes(duration, pattern),
   duration |-> duration]

\* The two loops of concatenateResults over results[i..]: acc holds combinedBuffer,
\* combinedVisemes and timeOffset.
RECURSIVE combine(_, _, _)
combine(rs, i, acc) ==
  IF i > Len(rs) THEN acc
  ELSE combine(rs, i + 1,
         [audioBuffer |-> acc.audioBuffer \o rs[i].audioBuffer,
          visemeData |-> acc.visemeData \o
             [j \in 1..Len(rs[i].visemeData) |->
                VisemeEvent(rs[i].visemeData[j].audioOffset + acc.duration,
                            rs[i].visemeData[j].visemeId)],
          duration |-> acc.duration + rs[i].duration])

EmptyResult == [audioBuffer |-> <<>>, visemeData |-> <<>>, duration |-> 0]

\* Faulty variant of concatenateResults: the chunks' offsets are not shifted.
concatenateResults_unshifted(rs) ==
  IF Len(rs) = 0 THEN EmptyResult
  ELSE IF Len(rs) = 1 THEN rs[1]
  ELSE [combine(rs, 1, EmptyResult) EXCEPT
          !.visemeData = rs[1].visemeData \o rs[2].visemeData]

concatenateResults(rs) ==
  IF Len(rs) = 0 THEN EmptyResult
  ELSE IF Len(rs) = 1 THEN rs[1]
  ELSE combine(rs, 1, EmptyResult)

\* The durations getAudioDuration comes to (ms) and the id sequences the random draws
\* come to, as tried here.
Durations == {0, 1, 50, 120, 1000}
Patterns == {<<0>>, <<21>>, <<1, 0>>, <<7, 7, 12>>}

\* The audio bytes the provider sends for the i-th request.
AudioOf(i) == [b \in 1..i |-> 10 * i + b]

\* synthesizeSpeechWithVisemes, single-call mode: the text fits one chunk.
elSingleCall(duration, pattern) ==
  /\ UNCHANGED notVisemes
  /\ provider = "elevenlabs"
  /\ ttsResult = <<>>
  /\ results = <<>>
  /\ ttsResult' = <<synthesizeSingleChunk(AudioOf(1), duration, pattern)>>
  /\ UNCHANGED <<collected, timeline, results>>

\* synthesizeSpeechWithVisemes, chunked mode: one pass of the for loop.
elChunkSynthesized(duration, pattern) ==
  /\ UNCHANGED notVisemes
  /\ provider = "elevenlabs"
  /\ ttsResult = <<>>
  /\ Len(results) < MaxChunks
  /\ results' = Append(results,
                       synthesizeSingleChunk(AudioOf(Len(results) + 1), duration, pattern))
  /\ UNCHANGED <<collected, timeline, ttsResult>>

\* synthesizeSpeechWithVisemes, chunked mode: `return this.concatenateResults(results)`.
elChunksJoined ==
  /\ UNCHANGED notVisemes
  /\ provider = "elevenlabs"
  /\ ttsResult = <<>>
  /\ Len(results) >= 1
  /\ ttsResult' = <<concatenateResults(results)>>
  /\ UNCHANGED <<collected, timeline, results>>

NextVisemes ==
  \/ \E offset \in 0..MaxTick, id \in {0, 21} : visemeReceived(offset, id)
  \/ synthesisCompleted
  \/ \E duration \in Durations, pattern \in Patterns : elSingleCall(duration, pattern)
  \/ \E duration \in Durations, pattern \in Patterns :
       elChunkSynthesized(duration, pattern)
  \/ elChunksJoined

(***************************************************************************)
(* chunkText: ElevenLabsTTSService.chunkText and debugUtils.chunkText      *)
(*                                                                         *)
(* A string is a sequence of characters; "." stands for the class [.!?],   *)
(* " " for \s and "a" for every other character.                           *)
(***************************************************************************)
Alphabet == {"a", ".", " "}

isPunct(c) == c = "."
isSpace(c) == c = " "

InitChunks ==
  /\ text = <<>>
  /\ maxLength = 0
  /\ chunks = <<>>
  /\ chunker = "none"

\* String.prototype.trim()
RECURSIVE trimStart(_)
trimStart(str) ==
  IF str # <<>> /\ isSpace(str[1]) THEN trimStart(Tail(str)) ELSE str

RECURSIVE trimEnd(_)
trimEnd(str) ==
  IF str # <<>> /\ isSpace(str[Len(str)])
    THEN trimEnd(SubSeq(str, 1, Len(str) - 1))
    ELSE str

trim(str) == trimEnd(trimStart(str))

\* The end of a greedy run: the first position from p on whose character is a
\* sentence end (stopAtPunct) or is none (~stopAtPunct), Len + 1 if there is none.
RECURSIVE runEnd(_, _, _)
runEnd(str, p, stopAtPunct) ==
  IF p > Len(str) THEN p
  ELSE IF isPunct(str[p]) = stopAtPunct THEN p
  ELSE runEnd(str, p + 1, stopAtPunct)

\* The end of a run of whitespace from p on.
RECURSIVE spaceEnd(_, _)
spaceEnd(str, p) ==
  IF p <= Len(str) /\ isSpace(str[p]) THEN spaceEnd(str, p + 1) ELSE p

\* str.match(/[^.!?]*[.!?]+\s*/g) from position p on: the successive matches.  Where
\* no sentence end is left, no later position matches either.
RECURSIVE sentenceRegex(_, _)
sentenceRegex(str, p) ==
  LET q == runEnd(str, p, TRUE)
  IN IF q > Len(str) THEN <<>>
     ELSE LET e == spaceEnd(str, runEnd(str, q, FALSE))
          IN <<SubSeq(str, p, e - 1)>> \o sentenceRegex(str, e)

\* The for loop of ElevenLabsTTSService.chunkText over sentences[i..]; st holds
\* chunks and currentChunk.
RECURSIVE packSentences(_, _, _, _)
packSentences(sentences, i, limit, st) ==
  IF i > Len(sentences) THEN st
  ELSE packSentences(sentences, i + 1, limit,
         IF Len(st.currentChunk \o sentences[i]) > limit /\ Len(st.currentChunk) > 0
           THEN [chunks |-> Append(st.chunks, trim(st.currentChunk)),
                 currentChunk |-> sentences[i]]
           ELSE [chunks |-> st.chunks,
                 currentChunk |-> st.currentChunk \o sentences[i]])

\* `if (currentChunk.trim()) chunks.push(currentChunk.trim())`
pushLast(st) ==
  IF trim(st.currentChunk) # <<>> THEN Append(st.chunks, trim(st.currentChunk))
  ELSE st.chunks

\* ElevenLabsTTSService.chunkText(text, maxLength)
chunkText(str, limit) ==
  LET matches == sentenceRegex(str, 1)
      sentences == IF matches = <<>> THEN <<str>> ELSE matches
      packed == pushLast(packSentences(sentences, 1, limit,
                                       [chunks |-> <<>>, currentChunk |-> <<>>]))
  IN IF packed = <<>> /\ trim(str) # <<>> THEN <<trim(str)>> ELSE packed

\* str.match(/[^.!?]+[.!?]+(?:\s|$)|[^.!?]+$/g) from position p on.  A run that ends
\* in a sentence end followed by neither whitespace nor the end of the string
\* matches at none of its positions.
RECURSIVE sentencePattern(_, _)
sentencePattern(str, p) ==
  IF p > Len(str) THEN <<>>
  ELSE IF isPunct(str[p]) THEN sentencePattern(str, p + 1)
  ELSE LET q == runEnd(str, p, TRUE)
           r == runEnd(str, q, FALSE)
       IN IF q > Len(str) \/ r > Len(str) THEN <<SubSeq(str, p, Len(str))>>
          ELSE IF isSpace(str[r])
            THEN <<SubSeq(str, p, r)>> \o sentencePattern(str, r + 1)
            ELSE sentencePattern(str, p + 1)

\* The for loop of debugUtils.chunkText.
RECURSIVE packSentencesDebug(_, _, _, _)
packSentencesDebug(sentences, i, limit, st) ==
  IF i > Len(sentences) THEN st
  ELSE packSentencesDebug(sentences, i + 1, limit,
         IF Len(st.currentChunk \o sentences[i]) > limit /\ Len(st.currentChunk) > 0
           THEN [chunks |-> Append(st.chunks, trim(st.currentChunk)),
                 currentChunk |-> sentences[i]]
           ELSE [chunks |-> st.chunks,
                 currentChunk |-> st.currentChunk \o sentences[i]])

\* debugUtils.chunkText(text, maxLength)
chunkTextDebug(str, limit) ==
  IF trim(str) = <<>> THEN <<>>
  ELSE LET matches == sentencePattern(str, 1)
           sentences == IF matches = <<>> THEN <<str>> ELSE matches
       IN pushLast(packSentencesDebug(sentences, 1, limit,
                                      [chunks |-> <<>>, currentChunk |-> <<>>]))

\* The maxLength arguments tried.
ChunkLimits == {2, 3, 8}

\* The caller builds the text, one character at a time.
typeChar(c) ==
  /\ UNCHANGED notChunks
  /\ chunker = "none"
  /\ Len(text) < MaxTextLen
  /\ text' = Append(text, c)
  /\ UNCHANGED <<maxLength, chunks, chunker>>

\* this.chunkText(text, limit) of ElevenLabsTTSService
elChunkText(limit) ==
  /\ UNCHANGED notChunks
  /\ chunker = "none"
  /\ maxLength' = limit
  /\ chunks' = chunkText(text, limit)
  /\ chunker' = "ElevenLabsTTSService"
  /\ UNCHANGED text

\* chunkText(text, limit) of debugUtils
debugChunkText(limit) ==
  /\ UNCHANGED notChunks
  /\ chunker = "none"
  /\ maxLength' = limit
  /\ chunks' = chunkTextDebug(text, limit)
  /\ chunker' = "debugUtils"
  /\ UNCHANGED text

NextChunks ==
  \/ \E c \in Alphabet : typeChar(c)
  \/ \E limit \in ChunkLimits : elChunkText(limit)
  \/ \E limit \in ChunkLimits : debugChunkText(limit)

(***************************************************************************)
(* prepareSpeechInput and the text each synthesis operation sends          *)
(*                                                                         *)
(* "*" stands for "**", "S" for "Source:", "P" for the pointer sentence    *)
(* "Please check references below for more information".                   *)
(***************************************************************************)
MaxRawLen == 5

RawAlphabet == {"a", " ", "*", "S"}

Marker == <<"*", "S", "*">>

Pointer == <<" ", "P">>

InitPrepare ==
  /\ rawText = <<>>
  /\ spoken = <<>>
  /\ spokenBy = "none"

\* String.prototype.indexOf from position p on: 0 stands for -1 (positions count from 1)
RECURSIVE indexOf(_, _, _)
indexOf(str, sub, p) ==
  IF p + Len(sub) - 1 > Len(str) THEN 0
  ELSE IF SubSeq(str, p, p + Len(sub) - 1) = sub THEN p
  ELSE indexOf(str, sub, p + 1)

\* prepareSpeechInput(text) of AzureSpeechService and of ElevenLabsTTSService
prepareSpeechInput(str) ==
  LET sourceIndex == indexOf(str, Marker, 1)
  IN IF sourceIndex # 0
       THEN trim(trim(SubSeq(str, 1, sourceIndex - 1)) \o Pointer)
       ELSE trim(str)

\* The caller builds the raw text, one character at a time.
typeRaw(c) ==
  /\ UNCHANGED notPrepare
  /\ spokenBy = "none"
  /\ Len(rawText) < MaxRawLen
  /\ rawText' = Append(rawText, c)
  /\ UNCHANGED <<spoken, spokenBy>>

\* AzureSpeechService.synthesizeSpeechWithVisemes: the SSML body
azSpeakSsml ==
  /\ UNCHANGED notPrepare
  /\ provider = "azure"
  /\ spokenBy = "none"
  /\ spoken' = <<prepareSpeechInput(rawText)>>
  /\ spokenBy' = "azure.synthesizeSpeechWithVisemes"
  /\ UNCHANGED rawText

\* AzureSpeechService.synthesizeSpeechOnly: speakTextAsync(text, ...)
azSpeakText ==
  /\ UNCHANGED notPrepare
  /\ provider = "azure"
  /\ spokenBy = "none"
  /\ spoken' = <<rawText>>
  /\ spokenBy' = "azure.synthesizeSpeechOnly"
  /\ UNCHANGED rawText

\* ElevenLabsTTSService: textToSpeech.convert(voiceId, {text: preparedText}) of
\* synthesizeSpeechWithVisemes (withVisemes) and of synthesizeSpeechOnly
elConvert(withVisemes) ==
  /\ UNCHANGED notPrepare
  /\ provider = "elevenlabs"
  /\ spokenBy = "none"
  /\ spoken' = <<prepareSpeechInput(rawText)>>
  /\ spokenBy' = IF withVisemes THEN "elevenlabs.synthesizeSpeechWithVisemes"
                 ELSE "elevenlabs.synthesizeSpeechOnly"
  /\ UNCHANGED rawText

NextPrepare ==
  \/ \E c \in RawAlphabet : typeRaw(c)
  \/ azSpeakSsml
  \/ azSpeakText
  \/ \E withVisemes \in BOOLEAN : elConvert(withVisemes)

(***************************************************************************)
(* AzureSpeechService.createSpeechRecognizer and the authorization token   *)
(***************************************************************************)
MaxRecCalls == 1

RecCalls == 1..MaxRecCalls

InitRecognizers == recPc = [r \in RecCalls |-> "idle"]

\* createSpeechRecognizer after ensureAuthorizationToken: the recognizer is built
\* from this.authorizationToken, or the call throws.
finishRecognizer(r) ==
  recPc' = [recPc EXCEPT ![r] = IF subscriptionKey \/ authorizationToken # "null"
                                  THEN "created" ELSE "failed"]

\* createSpeechRecognizer(options) up to its return, its throw, or its await of the
\* token provider inside ensureAuthorizationToken.
createSpeechRecognizer(r) ==
  /\ UNCHANGED notToken
  /\ provider = "azure"
  /\ UNCHANGED disposed
  /\ recPc[r] = "idle"
  /\ adEv' = "other"
  /\ UNCHANGED azVars
  /\ IF ~region \/ (~subscriptionKey /\ authorizationToken = "null" /\ ~getAuthorizationToken)
       THEN recPc' = [recPc EXCEPT ![r] = "failed"]
       ELSE IF subscriptionKey \/ ~speechConfig \/ ~needsRefresh \/ ~getAuthorizationToken
         THEN finishRecognizer(r)
         ELSE recPc' = [recPc EXCEPT ![r] = "ensuring"]

\* resolveAuthorizationToken / ensureAuthorizationToken / createSpeechRecognizer after
\* getAuthorizationToken() answered.  Assigning to a null speechConfig throws, and so
\* does SpeechConfig.fromAuthorizationToken on a null region.
recognizerTokenArrived(r, answer, expiry) ==
  /\ UNCHANGED notToken
  /\ provider = "azure"
  /\ UNCHANGED disposed
  /\ recPc[r] = "ensuring"
  /\ adEv' = "other"
  /\ UNCHANGED <<region, subscriptionKey, getAuthorizationToken, speechConfig,
                 synthVars, sessionVars, requestVars, azInits, azInitPc>>
  /\ IF answer = "token"
       THEN /\ authorizationToken' = "fresh"
            /\ tokenExpiresAt' = expiry
       ELSE UNCHANGED <<authorizationToken, tokenExpiresAt>>
  /\ recPc' = [recPc EXCEPT ![r] =
                 IF /\ answer # "rejected"
                    /\ (answer = "token" \/ authorizationToken # "null")
                    /\ speechConfig
                    /\ region
                   THEN "created" ELSE "failed"]

NextToken ==
  \/ \E regionGiven \in BOOLEAN,
        credential \in {"key", "provider", "static", "none", "key+provider",
                        "static+provider"} :
       azInitialize(regionGiven, credential)
  \/ \E answer \in {"token", "empty", "rejected"}, expiry \in {"null", "later", "soon"} :
       azInitTokenArrived(answer, expiry)
  \/ \E c \in AzCalls, withVisemes \in BOOLEAN : azSynthesize(c, withVisemes)
  \/ \E c \in AzCalls, answer \in {"token", "empty", "rejected"},
        expiry \in {"null", "later", "soon"} : azTokenArrived(c, answer, expiry)
  \/ \E r \in RecCalls : createSpeechRecognizer(r)
  \/ \E r \in RecCalls, answer \in {"token", "empty", "rejected"},
        expiry \in {"null", "later", "soon"} : recognizerTokenArrived(r, answer, expiry)
  \/ tokenAges
  \/ azDispose

(***************************************************************************)
(* useSpeechRecognition (hooks/useSpeechRecognition.ts)                    *)
(***************************************************************************)
MaxSessions == 2
MaxStops == 1

Recognizers == 1..MaxSessions

InitCapture ==
  /\ recognizerRef = 0
  /\ recCount = 0
  /\ active = FALSE
  /\ startInProgress = FALSE
  /\ pendingStop = FALSE
  /\ isRecording = FALSE
  /\ interimResult = FALSE
  /\ finalResult = FALSE
  /\ captureError = "none"
  /\ sdkStart = [n \in Recognizers |-> "none"]
  /\ stopsPending = [n \in Recognizers |-> 0]
  /\ closes = [n \in Recognizers |-> 0]
  /\ stopRequested = [n \in Recognizers |-> FALSE]
  /\ terminations = [n \in Recognizers |-> 0]
  /\ capOp = "other"
  /\ lateWrite = FALSE

\* A count that only tells none, one, two or more.
UpTo2(n) == IF n >= 2 THEN 2 ELSE n + 1

\* cleanupRecognizer(target): target 0 is null / undefined.
cleanupRecognizer(target) ==
  LET recognizer == IF target # 0 THEN target ELSE recognizerRef
  IN /\ active' = FALSE
     /\ startInProgress' = FALSE
     /\ pendingStop' = FALSE
     /\ recognizerRef' = IF recognizer # 0 /\ recognizerRef = recognizer
                           THEN 0 ELSE recognizerRef
     /\ closes' = IF recognizer # 0
                    THEN [closes EXCEPT ![recognizer] = UpTo2(@)] ELSE closes

\* stopRecognizerInstance(recognizer), recognizer not null: the SDK is asked to stop.
stopRecognizerInstance(recognizer) ==
  stopsPending' = [stopsPending EXCEPT ![recognizer] = @ + 1]

\* Faulty variant of startRecording: no early return while a recognizer exists.
startRecording_noGuard(outcome) ==
  /\ UNCHANGED notCapture
  /\ capOp' = "other"
  /\ UNCHANGED lateWrite
  /\ outcome = "recognizer"
  /\ recCount < MaxSessions
  /\ recCount' = recCount + 1
  /\ recognizerRef' = recCount + 1
  /\ active' = TRUE
  /\ startInProgress' = TRUE
  /\ pendingStop' = FALSE
  /\ isRecording' = TRUE
  /\ interimResult' = FALSE
  /\ finalResult' = FALSE
  /\ captureError' = "none"
  /\ sdkStart' = [sdkStart EXCEPT ![recCount + 1] = "pending"]
  /\ UNCHANGED <<stopsPending, closes, stopRequested,
                 terminations>>

\* startRecording().  outcome: what azureSpeechService.createSpeechRecognizer gave:
\* "recognizer" (the synchronous createSpeechRecognizer), "throws", or "promise" (the
\* async createSpeechRecognizer, not awaited: startContinuousRecognitionAsync is not a
\* function of it, and the catch block runs).
startRecording(outcome) ==
  /\ UNCHANGED notCapture
  /\ IF recognizerRef # 0
       THEN /\ capOp' = "startIgnored"
            /\ UNCHANGED <<lateWrite, hookState, sdkState, stopRequested, terminations>>
       ELSE /\ capOp' = "other"
            /\ UNCHANGED lateWrite
            /\ IF outcome = "recognizer"
                 THEN /\ recCount < MaxSessions
                      /\ recCount' = recCount + 1
                      /\ recognizerRef' = recCount + 1
                      /\ active' = TRUE
                      /\ startInProgress' = TRUE
                      /\ pendingStop' = FALSE
                      /\ isRecording' = TRUE
                      /\ interimResult' = FALSE
                      /\ finalResult' = FALSE
                      /\ captureError' = "none"
                      /\ sdkStart' = [sdkStart EXCEPT ![recCount + 1] = "pending"]
                      /\ UNCHANGED <<stopsPending, closes, stopRequested, terminations>>
                 ELSE /\ isRecording' = FALSE
                      /\ captureError' = IF outcome = "throws" THEN "unavailable"
                                         ELSE "microphone"
                      /\ interimResult' = IF outcome = "promise" THEN FALSE ELSE interimResult
                      /\ finalResult' = IF outcome = "promise" THEN FALSE ELSE finalResult
                      /\ active' = FALSE
                      /\ startInProgress' = FALSE
                      /\ pendingStop' = FALSE
                      /\ UNCHANGED <<recognizerRef, recCount, sdkState, stopRequested,
                                     terminations>>

\* stopRecording()
stopRecording ==
  /\ UNCHANGED notCapture
  /\ (recognizerRef # 0 /\ ~startInProgress) => stopsPending[recognizerRef] < MaxStops
  /\ capOp' = "other"
  /\ UNCHANGED lateWrite
  /\ isRecording' = FALSE
  /\ UNCHANGED <<recognizerRef, recCount, active, startInProgress, interimResult,
                 finalResult, captureError, sdkStart, closes, terminations>>
  /\ IF recognizerRef = 0
       THEN UNCHANGED <<pendingStop, stopsPending, stopRequested>>
       ELSE /\ stopRequested' = [stopRequested EXCEPT ![recognizerRef] = TRUE]
            /\ IF startInProgress
                 THEN /\ pendingStop' = TRUE
                      /\ UNCHANGED stopsPending
                 ELSE /\ stopRecognizerInstance(recognizerRef)
                      /\ UNCHANGED pendingStop

\* The success callback of startContinuousRecognitionAsync.
startConfirmed(n) ==
  /\ UNCHANGED notCapture
  /\ sdkStart[n] = "pending"
  /\ capOp' = "other"
  /\ UNCHANGED lateWrite
  /\ sdkStart' = [sdkStart EXCEPT ![n] = "started"]
  /\ startInProgress' = FALSE
  /\ pendingStop' = FALSE
  /\ IF pendingStop THEN stopRecognizerInstance(n) ELSE UNCHANGED stopsPending
  /\ UNCHANGED <<recognizerRef, recCount, active, isRecording, interimResult,
                 finalResult, captureError, closes, stopRequested, terminations>>

\* The error callback of startContinuousRecognitionAsync.
startFailed(n) ==
  /\ UNCHANGED notCapture
  /\ sdkStart[n] = "pending"
  /\ capOp' = "other"
  /\ UNCHANGED lateWrite
  /\ sdkStart' = [sdkStart EXCEPT ![n] = "failed"]
  /\ cleanupRecognizer(n)
  /\ isRecording' = FALSE
  /\ captureError' = "startFailed"
  /\ UNCHANGED <<recCount, interimResult, finalResult, stopsPending, stopRequested, terminations>>

\* Either callback of stopContinuousRecognitionAsync: finalize().
stopAnswered(n) ==
  /\ UNCHANGED notCapture
  /\ stopsPending[n] > 0
  /\ capOp' = "other"
  /\ UNCHANGED lateWrite
  /\ stopsPending' = [stopsPending EXCEPT ![n] = @ - 1]
  /\ cleanupRecognizer(n)
  /\ UNCHANGED <<recCount, isRecording, interimResult, finalResult, captureError,
                 sdkStart, stopRequested, terminations>>

\* recognizer.recognizing with reason RecognizingSpeech, from a started recognizer
\* that is not closed.
recognizing(n) ==
  /\ UNCHANGED notCapture
  /\ sdkStart[n] = "started"
  /\ closes[n] = 0
  /\ capOp' = "other"
  /\ lateWrite' = (lateWrite \/ (active /\ stopRequested[n]))
  /\ interimResult' = (active \/ interimResult)
  /\ UNCHANGED <<recognizerRef, recCount, active, startInProgress, pendingStop,
                 isRecording, finalResult, captureError, sdkStart, stopsPending,
                 closes, stopRequested, terminations>>

\* recognizer.recognized with reason RecognizedSpeech (speech) or NoMatch.
recognized(n, speech) ==
  /\ UNCHANGED notCapture
  /\ sdkStart[n] = "started"
  /\ closes[n] = 0
  /\ capOp' = "other"
  /\ lateWrite' = (lateWrite \/ (active /\ speech /\ stopRequested[n]))
  /\ interimResult' = IF active /\ speech THEN FALSE ELSE interimResult
  /\ finalResult' = (finalResult \/ (active /\ speech))
  /\ captureError' = IF active /\ ~speech THEN "nomatch" ELSE captureError
  /\ UNCHANGED <<recognizerRef, recCount, active, startInProgress, pendingStop,
                 isRecording, sdkStart, stopsPending, closes, stopRequested, terminations>>

\* recognizer.canceled (withError: reason Error with errorDetails) and
\* recognizer.sessionStopped (kind "sessionStopped"), from a started recognizer.
sessionEnded(n, kind, withError) ==
  /\ UNCHANGED notCapture
  /\ sdkStart[n] = "started"
  /\ capOp' = "other"
  /\ UNCHANGED lateWrite
  /\ UNCHANGED <<recCount, interimResult, finalResult, sdkStart, stopsPending,
                 stopRequested>>
  /\ IF ~active
       THEN UNCHANGED <<recognizerRef, active, startInProgress, pendingStop, isRecording,
                        captureError, closes, terminations>>
       ELSE /\ captureError' = IF kind = "canceled" /\ withError THEN "canceled"
                               ELSE captureError
            /\ isRecording' = FALSE
            /\ cleanupRecognizer(n)
            /\ terminations' = [terminations EXCEPT ![n] = UpTo2(@)]

NextCapture ==
  \/ \E outcome \in {"recognizer", "throws", "promise"} : startRecording(outcome)
  \/ stopRecording
  \/ \E n \in Recognizers : startConfirmed(n)
  \/ \E n \in Recognizers : startFailed(n)
  \/ \E n \in Recognizers : stopAnswered(n)
  \/ \E n \in Recognizers : recognizing(n)
  \/ \E n \in Recognizers, speech \in BOOLEAN : recognized(n, speech)
  \/ \E n \in Recognizers, kind \in {"canceled", "sessionStopped"}, withError \in BOOLEAN :
       sessionEnded(n, kind, withError)

(***************************************************************************)
(* ChatInterface (src/src/components/ChatInterface.tsx, the component of   *)
(* lines 1-292) with MessageInput, which enables its controls.             *)
(*                                                                         *)
(* The two hooks appear as the fields ChatInterface reads from them.  The  *)
(* Avatar's onStopSpeech is not wired, so isCancelled.current of the       *)
(* speech hook stays false and a synthesis that resolves is always played. *)
(* The recognizer is taken to start when startRecording finds one, as in   *)
(* the capture model above.                                                *)
(***************************************************************************)
\* handleSendMessage calls made on one ChatInterface
MaxSends == 1

Sends == 1..MaxSends
\* who asked for a speech: a handleSendMessage call, or 0 for the welcome effect
Speakers == 0..MaxSends
NoBuffer == 0 - 1

Message(kind, of) == [kind |-> kind, of |-> of]

InitChat ==
  /\ messages = <<Message("welcome", 0)>>
  /\ isTyping = FALSE
  /\ isListening = FALSE
  /\ hasSpokenWelcomeRef = FALSE
  /\ welcomeTimer = FALSE
  /\ sendPc = [i \in Sends |-> "idle"]
  /\ sendClosure = [i \in Sends |-> FALSE]
  /\ speechOutcome = [i \in Sends |-> "none"]
  /\ welcomePc = "idle"
  /\ isSpeechInitialized = FALSE
  /\ isSpeechLoading = FALSE
  /\ isAvatarSpeaking = FALSE
  /\ avatarAudioBuffer = NoBuffer
  /\ lastProcessedBuffer = NoBuffer
  /\ audioPlaying = FALSE
  /\ isVoiceRecording = FALSE
  /\ voiceFinalResult = FALSE
  /\ voiceSession = FALSE
  /\ chatOp = <<"other", 0>>

\* avatarRef.current?.stopSpeech(): the element is paused and onSpeechEnd
\* (handleSpeechEnd of the hook) clears the speaking state and the buffer.
avatarStopSpeech ==
  /\ audioPlaying' = FALSE
  /\ isAvatarSpeaking' = FALSE
  /\ avatarAudioBuffer' = NoBuffer
  /\ lastProcessedBuffer' = NoBuffer

\* if (isAvatarSpeaking) { avatarRef.current?.stopSpeech(); }
interruptSpeech ==
  IF isAvatarSpeaking
    THEN avatarStopSpeech
    ELSE UNCHANGED <<audioPlaying, isAvatarSpeaking, avatarAudioBuffer,
                    lastProcessedBuffer>>

\* the finally block of handleSendMessage
finishSend(i, outcome) ==
  /\ isTyping' = FALSE
  /\ isListening' = FALSE
  /\ sendPc' = [sendPc EXCEPT ![i] = "done"]
  /\ speechOutcome' = [speechOutcome EXCEPT ![i] = outcome]

\* the speech hook finished initializeSpeech with a configured provider
speechServiceReady ==
  /\ UNCHANGED notChat
  /\ ~isSpeechInitialized
  /\ isSpeechInitialized' = TRUE
  /\ chatOp' = <<"other", 0>>
  /\ UNCHANGED <<messages, isTyping, isListening, hasSpokenWelcomeRef, welcomeTimer,
                 sendPc, sendClosure, speechOutcome, welcomePc, isSpeechLoading,
                 isAvatarSpeaking, avatarAudioBuffer, lastProcessedBuffer, audioPlaying,
                 isVoiceRecording, voiceFinalResult, voiceSession>>

\* the welcome effect: it arms a 100 ms timer
welcomeEffect ==
  /\ UNCHANGED notChat
  /\ isSpeechInitialized /\ ~hasSpokenWelcomeRef /\ ~isAvatarSpeaking /\ ~isSpeechLoading
  /\ hasSpokenWelcomeRef' = TRUE
  /\ welcomeTimer' = TRUE
  /\ chatOp' = <<"other", 0>>
  /\ UNCHANGED <<messages, isTyping, isListening, sendPc, sendClosure, speechOutcome,
                 welcomePc, isSpeechInitialized, isSpeechLoading, isAvatarSpeaking,
                 avatarAudioBuffer, lastProcessedBuffer, audioPlaying, isVoiceRecording,
                 voiceFinalResult, voiceSession>>

\* the effect's cleanup: a dependency changed before the timer fired
welcomeCleanup ==
  /\ UNCHANGED notChat
  /\ welcomeTimer
  /\ isAvatarSpeaking \/ isSpeechLoading
  /\ welcomeTimer' = FALSE
  /\ chatOp' = <<"other", 0>>
  /\ UNCHANGED <<messages, isTyping, isListening, hasSpokenWelcomeRef, sendPc,
                 sendClosure, speechOutcome, welcomePc, isSpeechInitialized,
                 isSpeechLoading, isAvatarSpeaking, avatarAudioBuffer,
                 lastProcessedBuffer, audioPlaying, isVoiceRecording, voiceFinalResult,
                 voiceSession>>

\* the timer fires: speakWithLipSync(welcomeMessage) up to its await
welcomeSpeak ==
  /\ UNCHANGED notChat
  /\ welcomeTimer
  /\ ~(isAvatarSpeaking \/ isSpeechLoading)
  /\ welcomeTimer' = FALSE
  /\ welcomePc' = "awaiting"
  /\ isSpeechLoading' = TRUE
  /\ chatOp' = <<"other", 0>>
  /\ UNCHANGED <<messages, isTyping, isListening, hasSpokenWelcomeRef, sendPc,
                 sendClosure, speechOutcome, isSpeechInitialized, isAvatarSpeaking,
                 avatarAudioBuffer, lastProcessedBuffer, audioPlaying, isVoiceRecording,
                 voiceFinalResult, voiceSession>>

\* handleSendMessage(text) up to its await of sendMessage: from the form (MessageInput
\* handleSubmit) or from the effect that sends a recognized utterance.
handleSendMessage(i, byVoice) ==
  /\ UNCHANGED notChat
  /\ sendPc[i] = "idle"
  /\ \A j \in Sends : j < i => sendPc[j] # "idle"
  /\ IF byVoice
       THEN /\ ~isVoiceRecording /\ voiceFinalResult
            /\ voiceFinalResult' = FALSE
       ELSE /\ ~isTyping /\ ~isVoiceRecording
            /\ UNCHANGED voiceFinalResult
  /\ interruptSpeech
  /\ messages' = Append(messages, Message("user", i))
  /\ isTyping' = TRUE
  /\ isListening' = TRUE
  /\ sendPc' = [sendPc EXCEPT ![i] = "awaitSend"]
  /\ sendClosure' = [sendClosure EXCEPT ![i] = isSpeechInitialized]
  /\ chatOp' = <<"other", 0>>
  /\ UNCHANGED <<hasSpokenWelcomeRef, welcomeTimer, speechOutcome, welcomePc,
                 isSpeechInitialized, isSpeechLoading,
                 isVoiceRecording, voiceSession>>

\* sendMessage settled: the answer (or the apology) is appended, then the speech is
\* requested when the closure saw an initialized speech service.
sendAnswered_speaksFirst(i, ok) ==
  /\ UNCHANGED notChat
  /\ sendPc[i] = "awaitSend"
  /\ chatOp' = <<"other", 0>>
  /\ IF sendClosure[i]
       THEN /\ isSpeechLoading' = TRUE
            /\ sendPc' = [sendPc EXCEPT ![i] = "awaitSpeech"]
            /\ UNCHANGED <<messages, isTyping, isListening, speechOutcome>>
       ELSE /\ messages' = Append(messages, Message(IF ok THEN "bot" ELSE "error", i))
            /\ finishSend(i, "skipped")
            /\ UNCHANGED isSpeechLoading
  /\ UNCHANGED <<hasSpokenWelcomeRef, welcomeTimer, sendClosure, welcomePc,
                 isSpeechInitialized, isAvatarSpeaking, avatarAudioBuffer,
                 lastProcessedBuffer, audioPlaying, isVoiceRecording, voiceFinalResult,
                 voiceSession>>

sendAnswered(i, ok) ==
  /\ UNCHANGED notChat
  /\ sendPc[i] = "awaitSend"
  /\ chatOp' = <<"other", 0>>
  /\ messages' = Append(messages, Message(IF ok THEN "bot" ELSE "error", i))
  /\ IF sendClosure[i]
       THEN /\ isSpeechLoading' = TRUE
            /\ sendPc' = [sendPc EXCEPT ![i] = "awaitSpeech"]
            /\ UNCHANGED <<isTyping, isListening, speechOutcome>>
       ELSE /\ finishSend(i, "skipped")
            /\ UNCHANGED isSpeechLoading
  /\ UNCHANGED <<hasSpokenWelcomeRef, welcomeTimer, sendClosure, welcomePc,
                 isSpeechInitialized, isAvatarSpeaking, avatarAudioBuffer,
                 lastProcessedBuffer, audioPlaying, isVoiceRecording, voiceFinalResult,
                 voiceSession>>

\* speakWithLipSync returns to its caller: the adapter resolved (the result becomes the
\* hook's audioBuffer) or it rejected (failure or timeout; the hook returns 0).
speechReturned_staysTyping(s, resolved) ==
  /\ UNCHANGED notChat
  /\ IF s = 0 THEN welcomePc = "awaiting" ELSE sendPc[s] = "awaitSpeech"
  /\ chatOp' = <<"speechReturned", s>>
  /\ isSpeechLoading' = FALSE
  /\ IF resolved
       THEN /\ isAvatarSpeaking' = TRUE
            /\ avatarAudioBuffer' = s
       ELSE UNCHANGED <<isAvatarSpeaking, avatarAudioBuffer>>
  /\ IF s = 0
       THEN /\ welcomePc' = "done"
            /\ UNCHANGED <<isTyping, isListening, sendPc, speechOutcome>>
       ELSE /\ sendPc' = [sendPc EXCEPT ![s] = "done"]
            /\ speechOutcome' = [speechOutcome EXCEPT ![s] =
                                   IF resolved THEN "played" ELSE "silent"]
            /\ UNCHANGED <<isTyping, isListening, welcomePc>>
  /\ UNCHANGED <<messages, hasSpokenWelcomeRef, welcomeTimer, sendClosure,
                 isSpeechInitialized, lastProcessedBuffer, audioPlaying,
                 isVoiceRecording, voiceFinalResult, voiceSession>>

speechReturned(s, resolved) ==
  /\ UNCHANGED notChat
  /\ IF s = 0 THEN welcomePc = "awaiting" ELSE sendPc[s] = "awaitSpeech"
  /\ chatOp' = <<"speechReturned", s>>
  /\ isSpeechLoading' = FALSE
  /\ IF resolved
       THEN /\ isAvatarSpeaking' = TRUE
            /\ avatarAudioBuffer' = s
       ELSE UNCHANGED <<isAvatarSpeaking, avatarAudioBuffer>>
  /\ IF s = 0
       THEN /\ welcomePc' = "done"
            /\ UNCHANGED <<isTyping, isListening, sendPc, speechOutcome>>
       ELSE /\ finishSend(s, IF resolved THEN "played" ELSE "silent")
            /\ UNCHANGED welcomePc
  /\ UNCHANGED <<messages, hasSpokenWelcomeRef, welcomeTimer, sendClosure,
                 isSpeechInitialized, lastProcessedBuffer, audioPlaying,
                 isVoiceRecording, voiceFinalResult, voiceSession>>

\* Avatar: the effect on audioBuffer runs playAudioWithVisemes; play() resolves
\* (onSpeechStart) or the browser blocks it (onSpeechEnd).
avatarPlays(allowed) ==
  /\ UNCHANGED notChat
  /\ avatarAudioBuffer # NoBuffer
  /\ lastProcessedBuffer # avatarAudioBuffer
  /\ chatOp' = <<"other", 0>>
  /\ IF allowed
       THEN /\ lastProcessedBuffer' = avatarAudioBuffer
            /\ audioPlaying' = TRUE
            /\ isAvatarSpeaking' = TRUE
            /\ UNCHANGED avatarAudioBuffer
       ELSE avatarStopSpeech
  /\ UNCHANGED <<messages, isTyping, isListening, hasSpokenWelcomeRef, welcomeTimer,
                 sendPc, sendClosure, speechOutcome, welcomePc, isSpeechInitialized,
                 isSpeechLoading, isVoiceRecording, voiceFinalResult, voiceSession>>

\* Avatar: the 'ended' listener (cleanupObjectUrl, onSpeechEnd)
audioEnded ==
  /\ UNCHANGED notChat
  /\ audioPlaying
  /\ avatarStopSpeech
  /\ chatOp' = <<"other", 0>>
  /\ UNCHANGED <<messages, isTyping, isListening, hasSpokenWelcomeRef, welcomeTimer,
                 sendPc, sendClosure, speechOutcome, welcomePc, isSpeechInitialized,
                 isSpeechLoading, isVoiceRecording,
                 voiceFinalResult, voiceSession>>

\* the Stop button, rendered while isAvatarSpeaking
handleStopSpeech ==
  /\ UNCHANGED notChat
  /\ isAvatarSpeaking
  /\ avatarStopSpeech
  /\ chatOp' = <<"other", 0>>
  /\ UNCHANGED <<messages, isTyping, isListening, hasSpokenWelcomeRef, welcomeTimer,
                 sendPc, sendClosure, speechOutcome, welcomePc, isSpeechInitialized,
                 isSpeechLoading, isVoiceRecording,
                 voiceFinalResult, voiceSession>>

\* The voice button while not recording (MessageInput: rendered when the speech service
\* is initialized, disabled while isTyping).  The variant drops the interruption.
handleStartVoice_noInterrupt(started) ==
  /\ UNCHANGED notChat
  /\ isSpeechInitialized /\ ~isVoiceRecording /\ ~isTyping
  /\ UNCHANGED <<audioPlaying, isAvatarSpeaking, avatarAudioBuffer, lastProcessedBuffer>>
  /\ voiceFinalResult' = FALSE
  /\ chatOp' = <<"other", 0>>
  /\ IF started /\ ~voiceSession
       THEN /\ isVoiceRecording' = TRUE
            /\ voiceSession' = TRUE
       ELSE UNCHANGED <<isVoiceRecording, voiceSession>>
  /\ UNCHANGED <<messages, isTyping, isListening, hasSpokenWelcomeRef, welcomeTimer,
                 sendPc, sendClosure, speechOutcome, welcomePc, isSpeechInitialized,
                 isSpeechLoading>>

handleStartVoice(started) ==
  /\ UNCHANGED notChat
  /\ isSpeechInitialized /\ ~isVoiceRecording /\ ~isTyping
  /\ interruptSpeech
  /\ voiceFinalResult' = FALSE
  /\ chatOp' = <<"other", 0>>
  /\ IF started /\ ~voiceSession
       THEN /\ isVoiceRecording' = TRUE
            /\ voiceSession' = TRUE
       ELSE UNCHANGED <<isVoiceRecording, voiceSession>>
  /\ UNCHANGED <<messages, isTyping, isListening, hasSpokenWelcomeRef, welcomeTimer,
                 sendPc, sendClosure, speechOutcome, welcomePc, isSpeechInitialized,
                 isSpeechLoading>>

\* the voice button while recording: stopRecording()
handleStopVoice ==
  /\ UNCHANGED notChat
  /\ isSpeechInitialized /\ isVoiceRecording
  /\ isVoiceRecording' = FALSE
  /\ chatOp' = <<"other", 0>>
  /\ UNCHANGED <<messages, isTyping, isListening, hasSpokenWelcomeRef, welcomeTimer,
                 sendPc, sendClosure, speechOutcome, welcomePc, isSpeechInitialized,
                 isSpeechLoading, isAvatarSpeaking, avatarAudioBuffer,
                 lastProcessedBuffer, audioPlaying, voiceFinalResult, voiceSession>>

\* recognizer.recognized with speech: finalResult receives the utterance
voiceRecognized ==
  /\ UNCHANGED notChat
  /\ voiceSession
  /\ voiceFinalResult' = TRUE
  /\ chatOp' = <<"other", 0>>
  /\ UNCHANGED <<messages, isTyping, isListening, hasSpokenWelcomeRef, welcomeTimer,
                 sendPc, sendClosure, speechOutcome, welcomePc, isSpeechInitialized,
                 isSpeechLoading, isAvatarSpeaking, avatarAudioBuffer,
                 lastProcessedBuffer, audioPlaying, isVoiceRecording, voiceSession>>

\* the session ends (stop confirmed, canceled or sessionStopped)
voiceSessionEnded ==
  /\ UNCHANGED notChat
  /\ voiceSession
  /\ voiceSession' = FALSE
  /\ isVoiceRecording' = FALSE
  /\ chatOp' = <<"other", 0>>
  /\ UNCHANGED <<messages, isTyping, isListening, hasSpokenWelcomeRef, welcomeTimer,
                 sendPc, sendClosure, speechOutcome, welcomePc, isSpeechInitialized,
                 isSpeechLoading, isAvatarSpeaking, avatarAudioBuffer,
                 lastProcessedBuffer, audioPlaying, voiceFinalResult>>

NextChat ==
  \/ speechServiceReady
  \/ welcomeEffect
  \/ welcomeCleanup
  \/ welcomeSpeak
  \/ \E i \in Sends, byVoice \in BOOLEAN : handleSendMessage(i, byVoice)
  \/ \E i \in Sends, ok \in BOOLEAN : sendAnswered(i, ok)
  \/ \E s \in Speakers, resolved \in BOOLEAN : speechReturned(s, resolved)
  \/ \E allowed \in BOOLEAN : avatarPlays(allowed)
  \/ audioEnded
  \/ handleStopSpeech
  \/ \E started \in BOOLEAN : handleStartVoice(started)
  \/ handleStopVoice
  \/ voiceRecognized
  \/ voiceSessionEnded

(***************************************************************************)
(* Avatar.animateVisemes (src/unnamed/part_014 122-155; the copy kept in   *)
(* src/src/components/EndChatModal.tsx 470-505 is the same text).          *)
(*                                                                         *)
(* Time runs in steps of TickMs: while the audio plays the position and    *)
(* the wall clock advance together, while it stalls only the clock does.   *)
(***************************************************************************)
\* one step of time, in ms
TickMs == 100
\* largest audioOffset of an event of the timeline, in steps
MaxOffset == 2
\* length of the playback watched, in steps
MaxClock == 5

MAX_VISEME_DURATION == 300

\* a mapped id, the id mapped to 'neutral', and an id VISEME_MOUTH_SHAPES lacks
FrameVisemeIds == {0, 1, 40}

\* VISEME_MOUTH_SHAPES[visemeId] || 'neutral'
VISEME_MOUTH_SHAPES(visemeId) ==
  IF visemeId = 0 THEN "neutral" ELSE IF visemeId = 1 THEN "aa" ELSE "neutral"

InitFrames ==
  /\ frameVisemes = <<>>
  /\ framePlaying = FALSE
  /\ audioTime = 0
  /\ wallClock = 0
  /\ activeSince = 0
  /\ frameActive = 0
  /\ frameShape = "none"
  /\ frameOp = "other"

RECURSIVE firstMatch(_, _, _)
\* the for loop: the first index whose event started and whose successor did not
firstMatch(data, elapsed, index) ==
  IF index > Len(data)
    THEN 0
    ELSE IF /\ elapsed >= data[index].audioOffset
            /\ (index = Len(data) \/ elapsed < data[index + 1].audioOffset)
      THEN index
      ELSE firstMatch(data, elapsed, index + 1)

\* activeViseme: visemeData[visemeData.length - 1] unless the loop finds a match
activeViseme(data, elapsed) ==
  IF firstMatch(data, elapsed, 1) = 0 THEN Len(data) ELSE firstMatch(data, elapsed, 1)

\* the event the audio position lies in: the last one that started (0: none yet)
eventAt(data, elapsed) ==
  IF \E n \in 1..Len(data) : data[n].audioOffset <= elapsed
    THEN CHOOSE n \in 1..Len(data) :
           /\ data[n].audioOffset <= elapsed
           /\ \A m \in 1..Len(data) : data[m].audioOffset <= elapsed => m <= n
    ELSE 0

\* the synthesis result reaches the Avatar: one more event of the sorted timeline
visemeDataGrows(offset, id) ==
  /\ UNCHANGED notFrames
  /\ ~framePlaying
  /\ Len(frameVisemes) < MaxVisemes
  /\ frameVisemes # <<>> => frameVisemes[Len(frameVisemes)].audioOffset <= offset * TickMs
  /\ frameVisemes' = Append(frameVisemes, VisemeEvent(offset * TickMs, id))
  /\ frameOp' = "other"
  /\ UNCHANGED <<framePlaying, audioTime, wallClock, activeSince, frameActive,
                 frameShape>>

\* play() resolved: animateVisemes is scheduled for the next frame
playbackStarts ==
  /\ UNCHANGED notFrames
  /\ ~framePlaying
  /\ frameVisemes # <<>>
  /\ framePlaying' = TRUE
  /\ frameOp' = "other"
  /\ UNCHANGED <<frameVisemes, audioTime, wallClock, activeSince, frameActive,
                 frameShape>>

\* one step of time passes; the audio advances or stalls (buffering)
timePasses(stalled) ==
  /\ UNCHANGED notFrames
  /\ framePlaying
  /\ wallClock < MaxClock
  /\ wallClock' = wallClock + 1
  /\ audioTime' = IF stalled THEN audioTime ELSE audioTime + 1
  /\ activeSince' = IF eventAt(frameVisemes, audioTime' * TickMs)
                        # eventAt(frameVisemes, audioTime * TickMs)
                      THEN wallClock'
                      ELSE activeSince
  /\ frameOp' = "other"
  /\ UNCHANGED <<frameVisemes, framePlaying, frameActive, frameShape>>

\* one run of animateVisemes
animateFrame ==
  /\ UNCHANGED notFrames
  /\ framePlaying
  /\ LET elapsed == audioTime * TickMs
         selected == activeViseme(frameVisemes, elapsed)
         timeSinceVisemeStart == elapsed - frameVisemes[selected].audioOffset
     IN /\ frameActive' = selected
        /\ frameShape' = IF timeSinceVisemeStart > MAX_VISEME_DURATION
                           THEN "neutral"
                           ELSE VISEME_MOUTH_SHAPES(frameVisemes[selected].visemeId)
  /\ frameOp' = "frame"
  /\ UNCHANGED <<frameVisemes, framePlaying, audioTime, wallClock, activeSince>>

NextFrames ==
  \/ \E offset \in 0..MaxOffset, id \in FrameVisemeIds : visemeDataGrows(offset, id)
  \/ playbackStarts
  \/ \E stalled \in BOOLEAN : timePasses(stalled)
  \/ animateFrame

(***************************************************************************)
(* ElevenLabsTTSService.getAudioDuration within synthesizeSingleChunk and  *)
(* synthesizeSpeechOnly.                                                   *)
(***************************************************************************)
\* decoded lengths tried, in ms (an AudioBuffer holds at least one frame)
DecodedDurations == Durations \ {0}

\* Math.round(x / y) for naturals
roundDiv_floor(x, y) == x \div y

roundDiv(x, y) == (2 * x + y) \div (2 * y)

\* getAudioDuration(audioBuffer, textLength)
getAudioDuration(decode, decodedMs, textLength) ==
  IF decode = "decoded"
    THEN decodedMs
    ELSE roundDiv(textLength * 1000, 15)

InitDuration ==
  /\ durPc = "idle"
  /\ durOperation = "none"
  /\ durTextLength = 0
  /\ durDecode = "none"
  /\ durDecodedMs = 0
  /\ durResult = 0

\* the call up to its await of client.textToSpeech.convert
elConvertBegins(operation, textLength) ==
  /\ UNCHANGED notDuration
  /\ durPc = "idle"
  /\ durPc' = "converting"
  /\ durOperation' = operation
  /\ durTextLength' = textLength
  /\ UNCHANGED <<durDecode, durDecodedMs, durResult>>

\* convert or the audio stream failed: the catch block rethrows
elConvertFails ==
  /\ UNCHANGED notDuration
  /\ durPc = "converting"
  /\ durPc' = "rejected"
  /\ UNCHANGED <<durOperation, durTextLength, durDecode, durDecodedMs, durResult>>

\* the audio was received whole: getAudioDuration is awaited
elAudioComplete ==
  /\ UNCHANGED notDuration
  /\ durPc = "converting"
  /\ durPc' = "decoding"
  /\ UNCHANGED <<durOperation, durTextLength, durDecode, durDecodedMs, durResult>>

\* getAudioDuration returned and the result is built
elDurationReturned(decode, decodedMs) ==
  /\ UNCHANGED notDuration
  /\ durPc = "decoding"
  /\ decode = "decoded" <=> decodedMs # 0
  /\ durDecode' = decode
  /\ durDecodedMs' = decodedMs
  /\ durResult' = getAudioDuration(decode, decodedMs, durTextLength)
  /\ durPc' = "resolved"
  /\ UNCHANGED <<durOperation, durTextLength>>

NextDuration ==
  \/ \E operation \in {"withVisemes", "only"}, textLength \in 0..MaxTextLen :
       elConvertBegins(operation, textLength)
  \/ elConvertFails
  \/ elAudioComplete
  \/ \E decode \in {"decoded", "throws", "noContext"},
        decodedMs \in DecodedDurations \cup {0} : elDurationReturned(decode, decodedMs)

(***************************************************************************)
(* AzureSpeechService.synthesizeSpeechWithVisemes: the visemeReceived      *)
(* handler of calls that are in flight on one synthesizer.  The result     *)
(* holds the call's visemeData array itself (sort works in place).         *)
(***************************************************************************)
InitShared ==
  /\ visemeHandler = 0
  /\ utteranceVisemes = [c \in AzCalls |-> 0]
  /\ callVisemeData = [c \in AzCalls |-> <<>>]
  /\ sharedPc = [c \in AzCalls |-> "idle"]

\* the promise executor: the handler is assigned and the request handed to the SDK
azInstallsHandler(c) ==
  /\ UNCHANGED notShared
  /\ provider = "azure"
  /\ sharedPc[c] = "idle"
  /\ \A j \in AzCalls : j < c => sharedPc[j] # "idle"
  /\ visemeHandler' = c
  /\ sharedPc' = [sharedPc EXCEPT ![c] = "inflight"]
  /\ UNCHANGED <<utteranceVisemes, callVisemeData>>

\* the SDK raises visemeReceived for the utterance of call u: the installed closure
\* pushes the event to the array of the call that installed it
azVisemeEvent(u) ==
  /\ UNCHANGED notShared
  /\ provider = "azure"
  /\ sharedPc[u] = "inflight"
  /\ utteranceVisemes[u] < MaxVisemes
  /\ utteranceVisemes' = [utteranceVisemes EXCEPT ![u] = @ + 1]
  /\ callVisemeData' = [callVisemeData EXCEPT ![visemeHandler] = Append(@, u)]
  /\ UNCHANGED <<visemeHandler, sharedPc>>

\* the result callback of speakSsmlAsync: the call resolves with its array
azCallCompleted(c) ==
  /\ UNCHANGED notShared
  /\ provider = "azure"
  /\ sharedPc[c] = "inflight"
  /\ sharedPc' = [sharedPc EXCEPT ![c] = "resolved"]
  /\ UNCHANGED <<visemeHandler, utteranceVisemes, callVisemeData>>

NextShared ==
  \/ \E c \in AzCalls : azInstallsHandler(c)
  \/ \E u \in AzCalls : azVisemeEvent(u)
  \/ \E c \in AzCalls : azCallCompleted(c)

(***************************************************************************)
(* ElevenLabsTTSService.synthesizeSpeechWithVisemes, chunked mode: the for *)
(* loop over the chunks, one synthesizeSingleChunk per pass, with          *)
(* initialize() and dispose() running between its awaits.                  *)
(***************************************************************************)
MaxLoopChunks == 3
MaxPieces == 2

LoopChunkCounts == 2..MaxLoopChunks

InitLoop ==
  /\ loopPc = "idle"
  /\ loopChunks = 0
  /\ loopIndex = 0
  /\ loopRequests = <<>>
  /\ loopReceived = {}
  /\ loopPieces = 0
  /\ loopResults = <<>>
  /\ loopError = "none"
  /\ loopReturn = <<>>
  /\ loopFailedAt = 0

\* The catch block of synthesizeSingleChunk rethrows; the await in the for loop
\* throws, and the async function rejects.
chunkThrows(i) ==
  /\ loopPc' = "rejected"
  /\ loopError' = "wrapped"
  /\ loopFailedAt' = i
  /\ UNCHANGED <<loopChunks, loopIndex, loopReceived, loopPieces, loopResults, loopReturn>>

\* synthesizeSingleChunk(chunks[i]) up to `await this.client!.textToSpeech.convert`:
\* with a null client the member access throws inside the try block, and the catch
\* block rethrows.
synthesizeChunkBegins(i) ==
  IF ~elClient
    THEN /\ loopPc' = "rejected"
         /\ loopError' = "wrapped"
         /\ loopFailedAt' = i
         /\ UNCHANGED <<loopRequests, loopPieces>>
    ELSE /\ loopRequests' = Append(loopRequests, i)
         /\ loopPc' = "converting"
         /\ loopPieces' = 0
         /\ UNCHANGED <<loopError, loopFailedAt>>

\* synthesizeSpeechWithVisemes(text) with a text of n chunks, up to the first await.
elChunkedCall(n) ==
  /\ UNCHANGED notLoop
  /\ provider = "elevenlabs"
  /\ loopPc = "idle"
  /\ loopChunks' = n
  /\ IF ~elClient \/ ~elVoiceId
       THEN /\ loopPc' = "rejected"
            /\ loopError' = "notInitialized"
            /\ UNCHANGED <<loopIndex, loopRequests, loopReceived, loopPieces,
                           loopResults, loopReturn, loopFailedAt>>
       ELSE /\ loopIndex' = 1
            /\ synthesizeChunkBegins(1)
            /\ UNCHANGED <<loopReceived, loopResults, loopReturn>>

\* Faulty variant of chunkRequestAnswered: a failed chunk is skipped and the loop
\* goes on.
chunkRequestAnswered_skips(ok) ==
  /\ UNCHANGED notLoop
  /\ provider = "elevenlabs"
  /\ loopPc = "converting"
  /\ IF ok
       THEN /\ loopPc' = "streaming"
            /\ UNCHANGED <<loopChunks, loopIndex, loopRequests, loopReceived, loopPieces,
                           loopResults, loopError, loopReturn, loopFailedAt>>
       ELSE /\ loopFailedAt' = loopIndex
            /\ UNCHANGED <<loopChunks, loopReceived, loopPieces, loopResults, loopError>>
            /\ IF loopIndex < loopChunks
                 THEN /\ loopIndex' = loopIndex + 1
                      /\ loopRequests' = Append(loopRequests, loopIndex + 1)
                      /\ UNCHANGED <<loopPc, loopReturn>>
                 ELSE /\ loopPc' = "resolved"
                      /\ loopReturn' = loopResults
                      /\ UNCHANGED <<loopIndex, loopRequests>>

\* textToSpeech.convert answered: with the audio stream (ok) or by throwing.
chunkRequestAnswered(ok) ==
  /\ UNCHANGED notLoop
  /\ provider = "elevenlabs"
  /\ loopPc = "converting"
  /\ IF ok
       THEN /\ loopPc' = "streaming"
            /\ UNCHANGED <<loopChunks, loopIndex, loopRequests, loopReceived, loopPieces,
                           loopResults, loopError, loopReturn, loopFailedAt>>
       ELSE /\ chunkThrows(loopIndex)
            /\ UNCHANGED loopRequests

\* One pass of `for await (const chunk of audioStream)`: a piece arrives (outcome
\* "piece"), the stream ends ("end": getAudioDuration is awaited) or it throws.
chunkStreamRead(outcome) ==
  /\ UNCHANGED notLoop
  /\ provider = "elevenlabs"
  /\ loopPc = "streaming"
  /\ UNCHANGED loopRequests
  /\ IF outcome = "piece"
       THEN /\ loopPieces < MaxPieces
            /\ loopPieces' = loopPieces + 1
            /\ UNCHANGED <<loopPc, loopChunks, loopIndex, loopReceived, loopResults,
                           loopError, loopReturn, loopFailedAt>>
       ELSE IF outcome = "end"
         THEN /\ loopReceived' = loopReceived \cup {loopIndex}
              /\ loopPc' = "decoding"
              /\ UNCHANGED <<loopChunks, loopIndex, loopPieces, loopResults, loopError,
                             loopReturn, loopFailedAt>>
         ELSE chunkThrows(loopIndex)

\* getAudioDuration returned: synthesizeSingleChunk resolves, results.push(result),
\* and the loop goes to its next pass or returns concatenateResults(results).
chunkSynthesized ==
  /\ UNCHANGED notLoop
  /\ provider = "elevenlabs"
  /\ loopPc = "decoding"
  /\ UNCHANGED loopChunks
  /\ loopResults' = Append(loopResults, loopIndex)
  /\ IF loopIndex < loopChunks
       THEN /\ loopIndex' = loopIndex + 1
            /\ synthesizeChunkBegins(loopIndex + 1)
            /\ UNCHANGED <<loopReceived, loopReturn>>
       ELSE /\ loopPc' = "resolved"
            /\ loopReturn' = Append(loopResults, loopIndex)
            /\ UNCHANGED <<loopIndex, loopRequests, loopReceived, loopPieces, loopError,
                           loopFailedAt>>

NextLoop ==
  \/ \E apiKey \in {"null", "placeholder", "key"}, voiceGiven \in BOOLEAN :
       elInitialize(apiKey, voiceGiven)
  \/ elDispose
  \/ \E n \in LoopChunkCounts : elChunkedCall(n)
  \/ \E ok \in BOOLEAN : chunkRequestAnswered(ok)
  \/ \E outcome \in {"piece", "end", "throws"} : chunkStreamRead(outcome)
  \/ chunkSynthesized

Init == InitHook /\ InitAvatar /\ InitAdapters /\ InitVisemes /\ InitChunks /\ InitPrepare /\ InitRecognizers /\ InitCapture /\ InitChat /\ InitFrames /\ InitDuration /\ InitShared /\ InitLoop

SpecHook == Init /\ [][NextHook]_vars

SpecHookBoth == Init /\ [][NextHookBoth]_vars

SpecAvatar == Init /\ [][NextAvatar]_vars

SpecAdapters == Init /\ [][NextAdapters]_vars

SpecVisemes == Init /\ [][NextVisemes]_vars

SpecChunks == Init /\ [][NextChunks]_vars

\* A timer that was armed and not cleared fires, and decodeAudioData answers (or fails
\* into the estimate): both are local to the browser.  Nothing makes a provider answer.
SpecPrepare == Init /\ [][NextPrepare]_vars

SpecToken == Init /\ [][NextToken]_vars

SpecCapture == Init /\ [][NextCapture]_vars

SpecChat == Init /\ [][NextChat]_vars

SpecFrames == Init /\ [][NextFrames]_vars

SpecDuration == Init /\ [][NextDuration]_vars

SpecShared == Init /\ [][NextShared]_vars

SpecLoop == Init /\ [][NextLoop]_vars

SpecAdaptersFair ==
  /\ SpecAdapters
  /\ \A c \in AzCalls : WF_vars(timeoutFires(c))
  /\ \A e \in ElCalls : WF_vars(elDurationKnown(e))

(***************************************************************************)
(* C1. A speakWithLipSync call that was still awaiting its synthesis when  *)
(* a later call began never has its result written to the hook's           *)
(* visemeData / audioBuffer: only the later call's result is delivered.    *)
(***************************************************************************)
C1_SupersededResultNeverWritten ==
  \A k \in Calls : k \in overlapped => (audioBuffer # k /\ visemeData # k)

(***************************************************************************)
(* C2. stopSpeech(), in any playback state, leaves the engine idle (audio  *)
(* paused, no animation-frame request scheduled, no resume listener armed, *)
(* no live object URL, mouth neutral) and fires onSpeechEnd exactly once;  *)
(* the playback it interrupted fires no further onSpeechEnd later.         *)
(***************************************************************************)
C2_StopSpeechIdleAndOneEnd ==
  /\ ev.op = "stopSpeech" =>
       /\ elState = "paused"
       /\ ScheduledLoops = 0
       /\ animationRef = 0
       /\ listeners = {} /\ pendingResumeHandlerRef = 0
       /\ liveUrls = {} /\ objectUrlRef = 0
       /\ currentMouthShape = "neutral"
       /\ ev.ends = 1
  /\ (ev.op # "stopSpeech" /\ ev.run \in interrupted) => ev.ends = 0

(***************************************************************************)
(* C3. For every Azure synthesis call the session flag is set to settled   *)
(* exactly once and the caller's promise is resolved or rejected at most   *)
(* once, by whichever of SDK success, SDK error or the timer comes first;  *)
(* a later callback or timer firing for the same call finds the session    *)
(* settled and changes nothing: no second resolve / reject, no synthesizer *)
(* reset, no change to the live-session set.                               *)
(***************************************************************************)
C3_SettledExactlyOnce ==
  /\ [](\A c \in AzCalls :
          /\ settleWrites[c] <= 1
          /\ settleCalls[c] <= 1
          /\ settled[c] <=> settleWrites[c] = 1
          /\ azPromise[c] \in {"resolved", "rejected"} /\ azPc[c] = "inflight"
               => settleCalls[c] = 1)
  /\ [][\A c \in AzCalls :
          (/\ settled[c]
           /\ \/ sdk[c] = "outstanding" /\ sdk'[c] = "done"
              \/ timer[c] = "armed" /\ timer'[c] = "fired")
          => UNCHANGED <<sessionVars, synthVars>>]_vars

\* The timer won, and the SDK's callback arrived afterwards.
C3_Witness ==
  \E c \in AzCalls :
    /\ timer[c] = "fired"
    /\ sdk[c] = "done"
    /\ azPromise[c] = "rejected"
    /\ settleCalls[c] = 1

(***************************************************************************)
(* C4. Every adapter bounds each synthesis network call with a fixed       *)
(* timeout: if the provider never answers, the call is nevertheless        *)
(* settled (its promise rejected) once the timeout elapses, and the        *)
(* adapter's synthesis object is replaced by a fresh one so that the next  *)
(* call can complete.                                                      *)
(***************************************************************************)
C4_EveryCallBoundedByTimeout ==
  /\ \A c \in AzCalls : (azPc[c] = "inflight") ~> settled[c]
  /\ \A e \in ElCalls : (elPc[e] = "converting") ~> (elPromise[e] # "pending")
  /\ [][\A c \in AzCalls :
          (timer[c] = "armed" /\ timer'[c] = "fired" /\ ~isStale(c)) =>
            /\ azPromise'[c] = "rejected"
            /\ synthesizer' # 0
            /\ synthesizer' \notin closedSynths'
            /\ usedSynth[c] \in closedSynths']_vars

C6_StaleAttemptTouchesNothing ==
  (ev.op = "playAborted" /\ elSrc # ev.run) =>
    (ev.ends = 0 /\ ev.revoked = 0 /\ ~ev.reset)

(***************************************************************************)
(* C7. At every moment the Avatar holds at most one un-revoked object URL, *)
(* the one objectUrlRef names; right after playAudioWithVisemes created a  *)
(* new one it is the only one and the element plays nothing else.          *)
(***************************************************************************)
C7_AtMostOneLiveUrl ==
  /\ Cardinality(liveUrls) <= 1
  /\ liveUrls \subseteq {objectUrlRef}
  /\ ev.op = "main" => (liveUrls = {ev.run} /\ elSrc = ev.run)

\* A second buffer arrived while the first one's URL was alive: it was revoked.
C7_Witness ==
  ev.op = "main" /\ ev.run = 2 /\ ev.revoked = 1 /\ liveUrls = {2}

(***************************************************************************)
(* C8. At every moment at most one requestAnimationFrame viseme loop is    *)
(* scheduled per Avatar instance.                                          *)
(***************************************************************************)
C8_AtMostOneLoop == ScheduledLoops <= 1

(***************************************************************************)
(* C9. When the audio element fires 'ended' the engine stops the per-frame *)
(* loop, revokes the object URL, resets the mouth to neutral and fires     *)
(* onSpeechEnd exactly once; no viseme frame is processed afterwards until *)
(* another playback starts.                                                *)
(***************************************************************************)
C9_EndedStopsEverything ==
  /\ ev.op = "handleEnded" =>
       /\ ScheduledLoops = 0
       /\ liveUrls = {}
       /\ currentMouthShape = "neutral"
       /\ ev.ends = 1
  /\ ev.op = "animateVisemes" => ~endedSince

(***************************************************************************)
(* C10. A play() refused with NotAllowedError fires onSpeechEnd at once    *)
(* (and no onSpeechStart) and leaves exactly one resume handler armed; the *)
(* first user interaction removes it and makes exactly one new play()      *)
(* attempt; when an attempt succeeds onSpeechStart fires, once per         *)
(* utterance.                                                              *)
(***************************************************************************)
C10_BlockedStartResumesOnce ==
  /\ ev.blocked =>
       /\ ev.ends = 1 /\ ev.starts = 0
       /\ pendingResumeHandlerRef = ev.run
       /\ listeners = {ev.run}
  /\ listeners = (IF pendingResumeHandlerRef = 0 THEN {} ELSE {pendingResumeHandlerRef})
  /\ (ev.op = "resume" /\ ~ev.blocked) =>
       /\ ev.plays = 1
       /\ listeners = {} /\ pendingResumeHandlerRef = 0
       /\ Cardinality({k \in Plays : playPromise[k] = "pending"}) = 1
  /\ \A k \in Plays : startCount[k] <= 1
  /\ ev.op = "playResolved" => (ev.starts = 1 /\ startCount[ev.run] = 1)

\* A blocked start was resumed by a user interaction and the new attempt succeeded.
C10_Witness ==
  /\ ev.op = "playResolved"
  /\ awaitedBy[ev.run] = "resume"
  /\ startCount[ev.run] = 1

(***************************************************************************)
(* C11. An exception raised while starting playback (other than the        *)
(* autoplay refusal) is caught inside playAudioWithVisemes, and once its   *)
(* catch block has run the object URL is revoked, the mouth is neutral,    *)
(* onSpeechEnd has fired and no animation-frame loop is left running.      *)
(***************************************************************************)
C11_FailureLeavesIdle ==
  ev.op = "playFailed" =>
    /\ playPromise[ev.run] = "settled"
    /\ ev.ends = 1
    /\ liveUrls = {} /\ objectUrlRef = 0
    /\ currentMouthShape = "neutral"
    /\ ScheduledLoops = 0

(***************************************************************************)
(* C12. After stopSpeech() no further mouth-shape update comes from the    *)
(* per-frame viseme loop of a playback it stopped, nor from the loop of    *)
(* any playback earlier than that one.                                     *)
(***************************************************************************)
C12_StoppedLoopsAreSilent ==
  (ev.op = "animateVisemes" /\ hasVisemes[ev.run]) =>
    \A j \in interrupted : ev.run > j

(***************************************************************************)
(* C13. cancelSpeech() issued while a synthesis is in flight forces        *)
(* isSpeaking = false, visemeData = [] and audioBuffer = null, and the     *)
(* result of a synthesis that was cancelled is never written to the state  *)
(* afterwards, also when a new speakWithLipSync starts before the          *)
(* cancelled synthesis completes.                                          *)
(***************************************************************************)
C13_CancelledResultNeverWritten ==
  /\ hookOp = "cancelSpeech" => (~isSpeaking /\ visemeData = 0 /\ audioBuffer = 0)
  /\ \A k \in cancelledCalls : visemeData # k /\ audioBuffer # k

\* The offsets of a timeline never go back / always go forward.
NonDecreasing(v) == \A i \in 1..(Len(v) - 1) : v[i].audioOffset <= v[i + 1].audioOffset
StrictlyIncreasing(v) == \A i \in 1..(Len(v) - 1) : v[i].audioOffset < v[i + 1].audioOffset

\* The events of a timeline that carry one offset, in the timeline's order.
RECURSIVE AtOffset(_, _)
AtOffset(v, o) ==
  IF v = <<>> THEN <<>>
  ELSE IF v[1].audioOffset = o THEN <<v[1]>> \o AtOffset(Tail(v), o)
  ELSE AtOffset(Tail(v), o)

(***************************************************************************)
(* C14. The viseme sequence of every synthesis result is non-decreasing in *)
(* audioOffset: for the Azure adapter whatever order the viseme callbacks  *)
(* arrived in (no event lost, events with equal offsets in arrival order), *)
(* for the ElevenLabs adapter for every duration >= 0, in single-call and  *)
(* in chunked mode.                                                        *)
(***************************************************************************)
C14_TimelinesNonDecreasing ==
  /\ \A n \in 1..Len(timeline) :
       /\ NonDecreasing(timeline[n])
       /\ Len(timeline[n]) = Len(collected)
       /\ \A o \in 0..MaxTick : AtOffset(timeline[n], o) = AtOffset(collected, o)
  /\ \A n \in 1..Len(results) : NonDecreasing(results[n].visemeData)
  /\ \A n \in 1..Len(ttsResult) : NonDecreasing(ttsResult[n].visemeData)

\* The Azure callbacks arrived out of order, two of them with the same offset.
C14_Witness ==
  /\ timeline # <<>>
  /\ ~NonDecreasing(collected)
  /\ \E i, j \in 1..Len(collected) :
       /\ i < j
       /\ collected[i].audioOffset = collected[j].audioOffset
       /\ collected[i].visemeId # collected[j].visemeId

(***************************************************************************)
(* C15. The viseme timestamps of every result the ElevenLabs adapter       *)
(* returns are strictly increasing, no two events share an offset, for     *)
(* single-chunk results and for results concatenated from several chunks.  *)
(***************************************************************************)
C15_TimestampsStrictlyIncreasing ==
  /\ \A n \in 1..Len(results) : StrictlyIncreasing(results[n].visemeData)
  /\ \A n \in 1..Len(ttsResult) : StrictlyIncreasing(ttsResult[n].visemeData)

\* The results generateApproximateVisemes produced: every chunk's, and the result of
\* a single call.
Generated ==
  {results[n] : n \in 1..Len(results)}
    \cup (IF results = <<>> THEN {ttsResult[n] : n \in 1..Len(ttsResult)} ELSE {})

(***************************************************************************)
(* C16. generateApproximateVisemes(text, d), for every duration d >= 0,    *)
(* emits one event at each multiple of 50 ms strictly below d (at least    *)
(* d / 50 events), every visemeId in 0..21, followed by exactly one final  *)
(* event {audioOffset: d, visemeId: 0}; for d = 1000 that is 20 events and *)
(* the final one.                                                          *)
(***************************************************************************)
C16_FixedCadenceThenClosed ==
  \A r \in Generated :
    LET v == r.visemeData
        d == r.duration
        n == Len(v) - 1
    IN /\ n >= 0
       /\ n * 50 >= d
       /\ n > 0 => (n - 1) * 50 < d
       /\ \A i \in 1..n : v[i].audioOffset = (i - 1) * 50 /\ v[i].visemeId \in 0..21
       /\ v[n + 1] = VisemeEvent(d, 0)
       /\ d = 1000 => n = 20

\* A timeline for one second of audio, and one for a duration off the cadence.
C16_Witness ==
  /\ \E r \in Generated : r.duration = 1000 /\ Len(r.visemeData) = 21
  /\ \E r \in Generated : r.duration = 120 /\ Len(r.visemeData) = 4

\* Sums over the chunks before chunk i: their durations, events and audio bytes.
RECURSIVE DurationBefore(_)
DurationBefore(i) == IF i <= 1 THEN 0 ELSE DurationBefore(i - 1) + results[i - 1].duration
RECURSIVE EventsBefore(_)
EventsBefore(i) ==
  IF i <= 1 THEN 0 ELSE EventsBefore(i - 1) + Len(results[i - 1].visemeData)
RECURSIVE BytesBefore(_)
BytesBefore(i) ==
  IF i <= 1 THEN 0 ELSE BytesBefore(i - 1) + Len(results[i - 1].audioBuffer)

(***************************************************************************)
(* C17. In chunked mode the ElevenLabs result is the chunk results joined  *)
(* in chunk order: the audio bytes concatenated in order, the duration the *)
(* sum of the chunk durations, every viseme of chunk i present once, in    *)
(* order, with its offset increased by the durations of the chunks before  *)
(* it, and the last event the closed-mouth event at the total duration.    *)
(***************************************************************************)
C17_ChunksJoinedInOrder ==
  (ttsResult # <<>> /\ results # <<>>) =>
    LET joined == ttsResult[1]
        count == Len(results)
    IN /\ joined.duration = DurationBefore(count + 1)
       /\ Len(joined.audioBuffer) = BytesBefore(count + 1)
       /\ Len(joined.visemeData) = EventsBefore(count + 1)
       /\ \A i \in 1..count :
            /\ \A b \in 1..Len(results[i].audioBuffer) :
                 joined.audioBuffer[BytesBefore(i) + b] = results[i].audioBuffer[b]
            /\ \A j \in 1..Len(results[i].visemeData) :
                 joined.visemeData[EventsBefore(i) + j] =
                   VisemeEvent(results[i].visemeData[j].audioOffset + DurationBefore(i),
                               results[i].visemeData[j].visemeId)
       /\ joined.visemeData[Len(joined.visemeData)] = VisemeEvent(joined.duration, 0)

\* Two chunks with audio of different lengths were joined.
C17_Witness ==
  /\ ttsResult # <<>>
  /\ Len(results) = 2
  /\ results[1].duration = 120
  /\ results[2].duration = 50
  /\ ttsResult[1].duration = 170


(***************************************************************************)
(* chunkText claims                                                        *)
(***************************************************************************)
\* The characters of a string that are not whitespace, in order.
Content(str) == SelectSeq(str, LAMBDA c : ~isSpace(c))

\* The chunks of a result, concatenated in order.
RECURSIVE Joined(_)
Joined(cs) == IF cs = <<>> THEN <<>> ELSE Head(cs) \o Joined(Tail(cs))

\* The sentences of a string as the specification delimits them: a sentence ends at
\* sentence-ending punctuation followed by whitespace or by the end of the string;
\* what follows the last such end is a sentence too.  Each is trimmed, blank ones
\* are left out.
RECURSIVE Sentences(_, _, _)
Sentences(str, p, start) ==
  IF p > Len(str)
    THEN IF trim(SubSeq(str, start, Len(str))) = <<>> THEN <<>>
         ELSE <<trim(SubSeq(str, start, Len(str)))>>
  ELSE IF isPunct(str[p]) /\ (p = Len(str) \/ isSpace(str[p + 1]))
    THEN <<trim(SubSeq(str, start, p))>> \o Sentences(str, p + 1, p + 1)
    ELSE Sentences(str, p + 1, start)

Called == chunker # "none"

\* C18: whatever the text, the chunks returned, concatenated in order and compared
\* up to whitespace, are the whole original content: nothing is lost, nothing is
\* duplicated, also when the last sentence has no terminal punctuation or a
\* sentence end is not followed by whitespace.
C18_ChunksReproduceContent ==
  Called => Content(Joined(chunks)) = Content(text)

\* C19: a text that is not blank and no longer than maxLength comes back as exactly
\* one chunk, the trimmed text.
C19_ShortTextIsOneChunk ==
  (Called /\ trim(text) # <<>> /\ Len(text) <= maxLength) => chunks = <<trim(text)>>

C20_WithinLimitOrOneSentence ==
  \A i \in 1..Len(chunks) :
    Len(chunks[i]) <= maxLength \/ Len(Sentences(chunks[i], 1, 1)) = 1

C20_LongSentenceIsOwnChunk ==
  \A i \in 1..Len(Sentences(text, 1, 1)) :
    Len(Sentences(text, 1, 1)[i]) > maxLength =>
      \E j \in 1..Len(chunks) : chunks[j] = Sentences(text, 1, 1)[i]

C20_NoEmptyChunk == \A i \in 1..Len(chunks) : trim(chunks[i]) # <<>>

C20_BlankGivesNone == trim(text) = <<>> => chunks = <<>>

C20_Example ==
  (text = <<"a", ".", " ", "a", ".", " ", "a", ".">> /\ maxLength = 3)
    => chunks = << <<"a", ".">>, <<"a", ".">>, <<"a", ".">> >>

\* C20: every chunk is within maxLength unless it is one single sentence longer than
\* maxLength; such a sentence is returned as a chunk of its own; no chunk is empty;
\* empty or whitespace-only text gives no chunk; chunk("A. B. C.", 3) is
\* ["A.", "B.", "C."].
C20_GreedyPacking ==
  Called =>
    /\ C20_WithinLimitOrOneSentence
    /\ C20_LongSentenceIsOwnChunk
    /\ C20_NoEmptyChunk
    /\ C20_BlankGivesNone
    /\ C20_Example

(***************************************************************************)
(* prepareSpeechInput claims                                               *)
(***************************************************************************)
\* The marker occurs in str at position i.
MarkerAt(str, i) == i + 2 <= Len(str) /\ SubSeq(str, i, i + 2) = Marker

HasMarker(str) == \E i \in 1..Len(str) : MarkerAt(str, i)

FirstMarker(str) == CHOOSE i \in 1..Len(str) : MarkerAt(str, i) /\ \A j \in 1..(i - 1) : ~MarkerAt(str, j)

\* The prepared text as the specification describes it: truncate at the marker,
\* append the pointer sentence, trim.
Prepared(str) ==
  IF HasMarker(str) THEN trim(trim(SubSeq(str, 1, FirstMarker(str) - 1)) \o Pointer)
  ELSE trim(str)

C21_PreparedByThisCall == spoken = <<Prepared(rawText)>> /\ ~HasMarker(spoken[1])

\* C21: the text sent to the provider by either synthesis operation of either
\* adapter is the prepared text: with the marker, the trimmed text before its first
\* occurrence followed by the pointer sentence, and no marker left; without it, the
\* trimmed text.
C21_EveryOperationPrepares == spokenBy # "none" => C21_PreparedByThisCall

(***************************************************************************)
(* Authorization token claims                                              *)
(***************************************************************************)
\* The invocations of the token provider that have not answered yet.
PendingProviderCalls ==
  Cardinality({c \in AzCalls : azPc[c] = "ensuring"})
    + Cardinality({r \in RecCalls : recPc[r] = "ensuring"})
    + (IF azInitPc = "awaitToken" THEN 1 ELSE 0)

\* C22: token refresh is single-flight: the token provider is never invoked while
\* an earlier invocation of it is still pending.
C22_RefreshIsSingleFlight == PendingProviderCalls <= 1


\* Token mode with a token provider configured.
TokenMode == ~subscriptionKey /\ getAuthorizationToken

\* A step in which a synthesis call or a recognizer creation issues its request
\* straight after the token check, and one in which it does so after the provider
\* answered.
IssuedUnrefreshed ==
  \/ \E c \in AzCalls : azPc[c] = "idle" /\ azPc'[c] = "inflight"
  \/ \E r \in RecCalls : recPc[r] = "idle" /\ recPc'[r] = "created"

IssuedRefreshed ==
  \/ \E c \in AzCalls : azPc[c] = "ensuring" /\ azPc'[c] = "inflight"
  \/ \E r \in RecCalls : recPc[r] = "ensuring" /\ recPc'[r] = "created"

\* A step in which the token provider is invoked, and one in which it answers.
ProviderCalled ==
  \/ \E c \in AzCalls : azPc[c] # "ensuring" /\ azPc'[c] = "ensuring"
  \/ \E r \in RecCalls : recPc[r] # "ensuring" /\ recPc'[r] = "ensuring"
  \/ azInitPc # "awaitToken" /\ azInitPc' = "awaitToken"

ProviderAnswered ==
  \/ \E c \in AzCalls : azPc[c] = "ensuring" /\ azPc'[c] # "ensuring"
  \/ \E r \in RecCalls : recPc[r] = "ensuring" /\ recPc'[r] # "ensuring"
  \/ azInitPc = "awaitToken" /\ azInitPc' = "idle"

\* C23: in token mode with a provider, a request is issued without a refresh only
\* when a token is held whose expiry is known and outside the refresh window;
\* otherwise the provider is asked first and a token is installed when the request
\* is issued.  The token and its expiry change only in the refresh routine, in
\* initialize and in dispose (the clock reaching the refresh window is no change of
\* the field).  With a subscription key the provider is never called.
C23_TokenCheckedBeforeEveryRequest ==
  [][/\ (TokenMode /\ IssuedUnrefreshed) =>
          (authorizationToken # "null" /\ tokenExpiresAt = "later")
     /\ IssuedRefreshed => authorizationToken' # "null"
     /\ (authorizationToken' # authorizationToken
           \/ (tokenExpiresAt' # tokenExpiresAt
                 /\ ~(tokenExpiresAt = "later" /\ tokenExpiresAt' = "soon")))
          => (ProviderAnswered \/ azInits' # azInits \/ adEv' = "azDispose")
     /\ ProviderCalled => ~subscriptionKey']_vars

(***************************************************************************)
(* Voice capture claims                                                    *)
(***************************************************************************)
\* The recognizers created and not closed.
OpenRecognizers == {n \in Recognizers : n <= recCount /\ closes[n] = 0}

\* C24: a capture hook never has two recognition sessions at once: the only
\* recognizer that is not closed is the one in recognizerRef, and startRecording()
\* called while a recognizer exists creates none and changes no state.
C24_AtMostOneSession ==
  /\ OpenRecognizers \subseteq {recognizerRef}
  /\ capOp = "startIgnored" => recognizerRef # 0

\* startRecording() was called while the recognizer's start was pending, while it
\* was running and while its stop was pending.
C24_Witness ==
  /\ capOp = "startIgnored"
  /\ recognizerRef # 0
  /\ stopsPending[recognizerRef] > 0


\* C25: once stopRecording() has been requested on a session, no recognizing or
\* recognized event of that session changes interimResult or finalResult, also
\* when it arrives before the stop is confirmed.
C25_NoResultAfterStop == ~lateWrite

\* C26: a stop requested while the start is pending is not issued to the SDK before
\* the start is confirmed, and is then issued at once and only once; a recognizer
\* whose stop was answered or whose start failed is closed and released and leaves
\* no pending stop behind, so that startRecording() can create a new session.
C26_DeferredStop ==
  /\ \A n \in Recognizers : sdkStart[n] = "pending" => stopsPending[n] = 0
  /\ \A n \in Recognizers : stopsPending[n] <= 1
  /\ \A n \in Recognizers :
       (sdkStart[n] = "started" /\ recognizerRef = n /\ stopRequested[n] /\ closes[n] = 0)
         => stopsPending[n] = 1
  /\ \A n \in Recognizers :
       sdkStart[n] = "failed" => (closes[n] >= 1 /\ recognizerRef # n)
  /\ pendingStop => (recognizerRef # 0 /\ sdkStart[recognizerRef] = "pending")

\* C27: a canceled or sessionStopped callback of a running session closes and
\* releases the recognizer and sets isRecording to false, and this is done once per
\* session: a second such callback of the same session changes nothing.
C27_TerminatedExactlyOnce ==
  \A n \in Recognizers :
    /\ terminations[n] <= 1
    /\ terminations[n] = 1 => (closes[n] >= 1 /\ recognizerRef # n)


(***************************************************************************)
(* ChatInterface: capture against playback, and the text answer            *)
(***************************************************************************)
\* C28: Microphone capture and avatar speech are mutually exclusive: no reachable
\* state has recording active while the avatar's audio is playing, the welcome
\* message and a response whose synthesis was in flight when capture started
\* included.
C28_CaptureExcludesPlayback == ~(isVoiceRecording /\ audioPlaying)

\* the answer (or the apology) that call i appended
Answered(i) == \E n \in 1..Len(messages) :
                 messages[n].of = i /\ messages[n].kind \in {"bot", "error"}

\* C29: In handleSendMessage the bot's response message is appended before speech
\* is requested; whether the synthesis succeeds or fails (a timeout is a rejection
\* of the adapter), the message stays, and isTyping and isListening are false once
\* the speech call has returned.
C29_AnswerShownWhateverSpeechDoes ==
  /\ \A i \in Sends : sendPc[i] \in {"awaitSpeech", "done"} => Answered(i)
  /\ \A i \in Sends : chatOp = <<"speechReturned", i>> =>
       /\ sendPc[i] = "done"
       /\ ~isTyping
       /\ ~isListening
  /\ \A i \in Sends : (sendPc[i] = "done" /\ speechOutcome[i] = "skipped") =>
       ~sendClosure[i]

\* a call whose synthesis failed has returned: its answer is shown, the flags are reset
C29_Witness ==
  \E i \in Sends : /\ chatOp = <<"speechReturned", i>>
                   /\ speechOutcome[i] = "silent"
                   /\ Answered(i)
                   /\ ~isTyping

(***************************************************************************)
(* initialize() of the adapters                                            *)
(***************************************************************************)
\* C30: initialize fails when a required credential or the voice is absent (Azure:
\* no region, or neither a subscription key nor an obtainable token; ElevenLabs: no
\* API key, the placeholder key, or no voice id): an initialize() that returned
\* normally was given all of them.
C30_InitializeNeedsCredentialsAndVoice ==
  /\ adEv = "elInitialized" => (elApiKey = "key" /\ elVoiceId)
  /\ adEv = "azInitialized" =>
       (region /\ (subscriptionKey \/ authorizationToken # "null"))


(***************************************************************************)
(* Avatar.animateVisemes: the event a frame selects and the shape it sets  *)
(***************************************************************************)
\* C31: On every animation frame the viseme selected for audio position p is the
\* last event whose audioOffset <= p (its successor, if any, starting after p);
\* when p lies before the first event's offset no event is selected as active.
C31_FrameSelectsEventAtPosition ==
  frameOp = "frame" => frameActive = eventAt(frameVisemes, audioTime * TickMs)

\* the event the audio position lies in, and for how long (wall clock) it has been
Current == eventAt(frameVisemes, audioTime * TickMs)
HeldMs == (wallClock - activeSince) * TickMs

\* C32: Whenever the active viseme has stayed active for more than 300 ms without
\* being replaced (also while the audio stalls and its position stops advancing)
\* the next animation frame sets the mouth to neutral; otherwise the frame sets the
\* shape mapped from the active visemeId (neutral for an unmapped id).
C32_NeutralAfterMaxVisemeDuration ==
  (frameOp = "frame" /\ Current # 0) =>
    frameShape = IF HeldMs > MAX_VISEME_DURATION
                   THEN "neutral"
                   ELSE VISEME_MOUTH_SHAPES(frameVisemes[Current].visemeId)

(***************************************************************************)
(* useSpeechAvatar: a synthesis that fails                                 *)
(***************************************************************************)
\* C33: When a synthesis call fails, speakWithLipSync does not reject: it returns 0,
\* sets error to 'Speech synthesis failed: ...', sets isLoading to false and leaves
\* isSpeaking, visemeData and audioBuffer unchanged; speakWithoutLipSync likewise
\* resolves with error set and isLoading false.
C33_FailedSynthesisIsReported ==
  [][
      /\ hookOp' = "synthesisRejected" =>
           /\ \A k \in Calls : (callPc[k] = "awaiting" /\ callPc'[k] = "done") =>
                callRet'[k] = "zero"
           /\ error' = "synthesis"
           /\ ~isLoading'
           /\ UNCHANGED <<isSpeaking, visemeData, audioBuffer>>
      /\ hookOp' = "speechOnlyRejected" =>
           /\ \A k \in Calls : (callPc[k] = "awaitingOnly" /\ callPc'[k] = "done") =>
                callRet'[k] = "void"
           /\ error' = "synthesis"
           /\ ~isLoading'
    ]_vars

\* a lip-sync call failed while an earlier result was still held for playback
C33_Witness ==
  /\ hookOp = "synthesisRejected"
  /\ \E k \in Calls : callPc[k] = "done" /\ callRet[k] = "zero"
  /\ audioBuffer # 0
  /\ isSpeaking
  /\ error = "synthesis"


(***************************************************************************)
(* ElevenLabsTTSService: the duration of a result                          *)
(***************************************************************************)
\* C34: The ElevenLabs adapter never fails a synthesis because the audio cannot be
\* decoded: when decoding succeeds the duration is the decoded length in ms, and
\* when decoding throws or no audio context exists the duration is
\* round(textLength / 15 * 1000) ms; the duration is > 0 for every non-empty text.
C34_DurationDecodedOrEstimated ==
  /\ durDecode # "none" => durPc = "resolved"
  /\ (durPc = "resolved" /\ durDecode = "decoded") => durResult = durDecodedMs
  /\ (durPc = "resolved" /\ durDecode \in {"throws", "noContext"}) =>
       \* the integer nearest to textLength * 1000 / 15
       /\ 2 * (15 * durResult - 1000 * durTextLength) <= 15
       /\ 2 * (1000 * durTextLength - 15 * durResult) <= 15
  /\ (durPc = "resolved" /\ durTextLength > 0) => durResult > 0

\* a one-character text whose audio could not be decoded got an estimate
C34_Witness ==
  /\ durPc = "resolved"
  /\ durDecode = "throws"
  /\ durTextLength = 1
  /\ durResult = 67


(***************************************************************************)
(* AzureSpeechService: viseme events of concurrent calls                   *)
(***************************************************************************)
\* C35: When two Azure synthesizeSpeechWithVisemes calls are in flight on the same
\* synthesizer, each result contains exactly the viseme events emitted for its own
\* utterance: no event of one call is in the other call's result and none is lost.
C35_ResultHoldsOwnVisemes ==
  \A c \in AzCalls : sharedPc[c] = "resolved" =>
    /\ \A n \in 1..Len(callVisemeData[c]) : callVisemeData[c][n] = c
    /\ Len(callVisemeData[c]) = utteranceVisemes[c]


(***************************************************************************)
(* AzureSpeechService: calls in flight when dispose() runs                 *)
(***************************************************************************)
\* C36: Every call to an adapter's synthesizeSpeechWithVisemes / synthesizeSpeechOnly
\* eventually resolves or rejects its caller's promise, dispose() during the call
\* included.  A call can only be settled by its timer or by its SDK callback, so once
\* both have been delivered the promise is no longer pending.
C36_SettledOnceDelivered ==
  \A c \in AzCalls :
    (azPc[c] = "inflight" /\ timer[c] \in {"fired", "cleared"} /\ sdk[c] = "done") =>
      azPromise[c] # "pending"


(***************************************************************************)
(* useSpeechRecognition: a stop confirmation that arrives late             *)
(***************************************************************************)
\* C37: The stop callback of a session that canceled / sessionStopped already cleaned
\* up leaves a newer session alone: when it arrives while another recognizer is the
\* current one, the active flag, the start-in-progress flag, the pending-stop flag and
\* the recognizer reference keep their values.
C37_LateStopLeavesNewerSession ==
  [][\A n \in Recognizers :
       (/\ stopAnswered(n)
        /\ terminations[n] > 0
        /\ recognizerRef # 0
        /\ recognizerRef # n)
         => UNCHANGED <<active, startInProgress, pendingStop, recognizerRef>>]_vars



(***************************************************************************)
(* ElevenLabsTTSService: the chunk loop                                    *)
(***************************************************************************)
\* C38: In chunked mode the chunk requests are issued one after another in text
\* order, the request for chunk i+1 only after the audio of chunk i was received to
\* its end; if a chunk fails, dispose() in between included, the call rejects with
\* 'Failed to synthesize speech with ElevenLabs: ...', returns no partial result and
\* requests no later chunk; a call that resolves returns every chunk in order.
C38_ChunksOneAfterAnother ==
  /\ \A k \in 1..Len(loopRequests) : loopRequests[k] = k
  /\ \A k \in 2..Len(loopRequests) : (k - 1) \in loopReceived
  /\ loopFailedAt # 0 =>
       /\ loopPc = "rejected"
       /\ loopError = "wrapped"
       /\ loopReturn = <<>>
       /\ Len(loopRequests) <= loopFailedAt
  /\ loopPc = "resolved" =>
       /\ loopFailedAt = 0
       /\ loopReturn = [k \in 1..loopChunks |-> k]

\* dispose() ran while chunk 1 was being received: chunk 2 was never requested and the
\* call rejected with the wrapped error
C38_Witness ==
  /\ loopPc = "rejected"
  /\ loopError = "wrapped"
  /\ loopFailedAt = 2
  /\ loopRequests = <<1>>
  /\ loopResults = <<1>>
  /\ ~elClient


(***************************************************************************)
(* Both adapters: a synthesis call on a disposed adapter                   *)
(***************************************************************************)
\* C39: A synthesis call made after dispose() and before a new initialize() rejects at
\* the 'not initialized' guard: the provider is not contacted, no session is
\* registered, no timer is started and no field of the adapter changes.
C39_CallOnDisposedAdapterRejects ==
  [][/\ \A c \in AzCalls :
          (provider = "azure" /\ disposed # "no" /\ azPc[c] = "idle" /\ azPc'[c] # "idle")
            => /\ synthesizer = 0
               /\ azPc'[c] = "done"
               /\ azPromise'[c] = "rejected"
               /\ UNCHANGED <<credVars, synthVars, activeSynthesisPromises, settled,
                              timer, sdk, usedSynth>>
     /\ \A e \in ElCalls :
          (provider = "elevenlabs" /\ disposed # "no" /\ elPc[e] = "idle"
             /\ elPc'[e] # "idle")
            => /\ ~elClient
               /\ elPc'[e] = "done"
               /\ elPromise'[e] = "rejected"
               /\ UNCHANGED <<elClient, elApiKey, elVoiceId>>]_vars

\* an adapter that served a call was disposed, and a call made afterwards was rejected
C39_Witness ==
  /\ disposed = "used"
  /\ \/ /\ provider = "azure"
        /\ azPromise[1] = "resolved"
        /\ azPc[2] = "done"
        /\ azPromise[2] = "rejected"
        /\ timer[2] = "none"
        /\ sdk[2] = "none"
     \/ /\ provider = "elevenlabs"
        /\ elPromise[1] = "resolved"
        /\ elPc[2] = "done"
        /\ elPromise[2] = "rejected"


(***************************************************************************)
(* Avatar: a stop or a new buffer while playback is blocked                *)
(***************************************************************************)
\* C40: After stopSpeech() no resume handler is armed, and the handler of a run that
\* stopSpeech() cut short is never armed again, so no later pointer or key interaction
\* starts that run or fires its callbacks; after a new buffer replaced a blocked one
\* only the new buffer's run can be armed and resumed.
C40_NoResumeAfterStop ==
  /\ ev.op = "stopSpeech" => (listeners = {} /\ pendingResumeHandlerRef = 0)
  /\ listeners \cap interrupted = {}
  /\ listeners \subseteq {elSrc}
  /\ ev.op = "resume" => (ev.run \notin interrupted /\ ev.run = elSrc)

\* stopSpeech() ran while the first buffer's start was blocked and its handler armed
C40_Witness ==
  /\ ev.op = "stopSpeech"
  /\ ev.revoked = 1
  /\ 1 \in interrupted
  /\ attempts[1] >= 1
  /\ startCount[1] = 0
  /\ playPromise[1] = "settled"

====
